---- MODULE Spec2Model ----
(***************************************************************************)
(* enex2paperless: the concurrent note-processing pipeline (Process, the   *)
(* producer, the upload workers, the failure catcher and the retry         *)
(* feeder), the tag cache (getOrCreateTagID) and the archive extractor     *)
(* (unzipFile).                                                            *)
(*                                                                         *)
(* Strings are sequences of symbols; a symbol is a run of characters that  *)
(* no operation of the program splits ("application", "/", "pdf").         *)
(***************************************************************************)
EXTENDS Integers, Sequences, FiniteSets, TLC

\* ------------------------------------------------------------------ bounds
MaxNotes == 2
MaxWorkers == 2
MaxCycles == 2
MaxCallers == 3
MaxTagFaults == 1
MaxEntries == 2
MaxSavers == 2
MaxSaves == 3
MaxTokens == 2

VARIABLES
    \* ---- Process (the coordinator) and the EnexFile of the current cycle
    opts,            \* ProcessOptions and the input file's accessibility
    pc,              \* the coordinator's position in Process
    cycle,           \* 0: the first cycle; k >= 1: the k-th retry cycle
    exited,          \* os.Exit(1) was called by the producer goroutine
    prod,            \* the producer (ReadFromFile) or the RetryFeeder
    noteClosed,      \* NoteChannel of the current EnexFile is closed
    failClosed,      \* FailedNoteChannel of the current EnexFile is closed
    wk,              \* the workers (UploadFromNoteChannel)
    wg,              \* the sync.WaitGroup counter
    catcher,         \* the FailedNoteCatcher goroutine of the current cycle
    failedNotes,     \* Process's local failedNotes
    failedThisCycle, \* Process's local failedThisCycle (retry cycles)
    NumNotes,        \* EnexFile.NumNotes, one EnexFile per cycle
    Uploads,         \* EnexFile.Uploads, one EnexFile per cycle
    notesProcessed,  \* Process's local notesProcessed
    filesUploaded,   \* Process's local filesUploaded
    shouldRetry,     \* Process's local shouldRetry at the last decision
    result,          \* what Process returned
    panicked,        \* a goroutine sent on a closed channel
    \* ---- history of the run (not program state)
    hist,
    \* ---- the tag cache (package paperless) and the remote tag store
    tagCache,        \* tagCache: name -> id, NoEntry when the key is absent
    tagMutex,        \* tagCacheMutex: the writer (0: none) and the readers
    tc,              \* the callers of getOrCreateTagID
    remoteTags,      \* the remote system's tags: name -> id, 0 when absent
    nextTagId,       \* the id the remote system gives its next tag
    tagHist,         \* history of the tag calls (not program state)
    \* ---- unzipFile and the file system it writes to
    zipFile,         \* zipReader.File: the entries of the archive
    uz,              \* unzipFile: its position, extractedFiles, its error
    fs,              \* the afero.Fs: its kind, its files, its directories
    \* ---- saving resources into the output folder
    saveCfg,         \* how resources are saved, by how many workers, onto what
    disk,            \* the output folder: file name -> bytes
    sv,              \* the workers, each at some point of saving one resource
    nextSave,        \* the number of the next save; a save writes its number
    landed,          \* the saves whose write succeeded (not program state)
    \* ---- one call of checkFileType
    fileTypes,       \* config.FileTypes: the admission list
    mimeType,        \* the argument of the call
    verdict          \* what the call returned, once it has returned

pipeVars == <<opts, pc, cycle, exited, prod, noteClosed, failClosed, wk, wg,
              catcher, failedNotes, failedThisCycle, NumNotes, Uploads,
              notesProcessed, filesUploaded, shouldRetry, result, panicked, hist>>

tagVars == <<tagCache, tagMutex, tc, remoteTags, nextTagId, tagHist>>

zipVars == <<zipFile, uz, fs>>

saveVars == <<saveCfg, disk, sv, nextSave, landed>>

typeVars == <<fileTypes, mimeType, verdict>>

vars == <<pipeVars, tagVars, zipVars, saveVars, typeVars>>

\* ----------------------------------------------------------------- strings
Str(s) == <<s>>

Lower(sym) ==
    CASE sym = "PDF" -> "pdf"
      [] sym = "Pdf" -> "pdf"
      [] sym = "TXT" -> "txt"
      [] sym = "PLAIN" -> "plain"
      [] sym = "PNG" -> "png"
      [] sym = "ANY" -> "any"
      [] sym = ".PDF" -> ".pdf"
      [] sym = ".ZIP" -> ".zip"
      [] OTHER -> sym

ToLower(s) == [i \in 1..Len(s) |-> Lower(s[i])]

\* strings.Split(s, "/"): the parts between the separators
RECURSIVE SplitSlash(_)
SplitSlash(s) ==
    IF \A i \in 1..Len(s) : s[i] # "/"
    THEN <<s>>
    ELSE LET k == CHOOSE i \in 1..Len(s) :
                     s[i] = "/" /\ \A j \in 1..(i-1) : s[j] # "/"
         IN <<SubSeq(s, 1, k-1)>> \o SplitSlash(SubSeq(s, k+1, Len(s)))

\* ----------------------------------------------------------- configuration
FileTypes == <<Str("pdf"), Str("zip")>>

\* -------------------------------------------------------- type admission
getExtensionFromMimeType(mime) ==
    LET parts == SplitSlash(mime)
    IN IF Len(parts) # 2 THEN [err |-> TRUE, ext |-> <<>>]
       ELSE [err |-> FALSE, ext |-> parts[2]]

\* a checkFileType that takes the MIME type apart before it looks for "any"
checkFileTypeParsesFirst(types, mime) ==
    LET e == getExtensionFromMimeType(mime)
    IN IF e.err THEN [ok |-> FALSE, err |-> TRUE]
       ELSE [ok |-> \E i \in 1..Len(types) :
                        types[i] = Str("any") \/ ToLower(types[i]) = ToLower(e.ext),
             err |-> FALSE]

checkFileTypeFor(types, mime) ==
    IF \E i \in 1..Len(types) : types[i] = Str("any")
    THEN [ok |-> TRUE, err |-> FALSE]
    ELSE LET e == getExtensionFromMimeType(mime)
             allowed == [i \in 1..Len(types) |->
                            IF types[i] = Str("txt") THEN Str("plain")
                            ELSE ToLower(types[i])]
         IN IF e.err THEN [ok |-> FALSE, err |-> TRUE]
            ELSE [ok |-> \E i \in 1..Len(allowed) : ToLower(e.ext) = allowed[i],
                  err |-> FALSE]

checkFileType(mime) == checkFileTypeFor(FileTypes, mime)

\* ------------------------------------------------------- payload decoding
Base64Alphabet == {"A", "B", "+", "/"}

StripWs(data) == SelectSeq(data, LAMBDA c : c # "\n" /\ c # " ")

\* ^[A-Za-z0-9+/]*={0,2}$
validBase64(data) ==
    \E k \in 0..2 :
        /\ k <= Len(data)
        /\ \A i \in 1..(Len(data) - k) : data[i] \in Base64Alphabet
        /\ \A i \in (Len(data) - k + 1)..Len(data) : data[i] = "="

\* base64.StdEncoding.DecodeString succeeds on a string that passed
\* validBase64 iff its length is a multiple of 4
decodeOK(data) == Len(data) % 4 = 0

\* the 6-bit value of a base64 character
B64Value(c) == CASE c = "A" -> 0 [] c = "B" -> 1 [] c = "+" -> 62 [] OTHER -> 63

\* base64.StdEncoding.DecodeString: each group of four characters gives three
\* bytes, less one byte for each "=" the last group ends in
RECURSIVE DecodeString(_)
DecodeString(data) ==
    IF Len(data) < 4 THEN <<>>
    ELSE LET v(i) == IF data[i] = "=" THEN 0 ELSE B64Value(data[i])
             n == v(1) * 262144 + v(2) * 4096 + v(3) * 64 + v(4)
             bytes == <<n \div 65536, (n \div 256) % 256, n % 256>>
             pad == Cardinality({i \in 3..4 : data[i] = "="})
         IN SubSeq(bytes, 1, 3 - pad) \o DecodeString(SubSeq(data, 5, Len(data)))

\* the string the worker hands to the decoder: the padded value is
\* overwritten by the stripped original
DecoderInput(data) == StripWs(data)

\* ------------------------------------------------------- archive entries
\* filepath.Ext of the entry's last path element, lower-cased by getMimeType
getMimeType(ext) ==
    CASE Lower(ext) = ".pdf" -> <<"application", "/", "pdf">>
      [] Lower(ext) = ".txt" -> <<"text", "/", "plain">>
      [] Lower(ext) \in {".jpg", ".jpeg"} -> <<"image", "/", "jpeg">>
      [] Lower(ext) = ".png" -> <<"image", "/", "png">>
      [] Lower(ext) = ".gif" -> <<"image", "/", "gif">>
      [] Lower(ext) = ".webp" -> <<"image", "/", "webp">>
      [] Lower(ext) \in {".tiff", ".tif"} -> <<"image", "/", "tiff">>
      [] OTHER -> <<"application", "/", "octet-stream">>

\* processZipFile's own type filter on an extracted entry
zipFileTypeAllowed(types, mime) ==
    LET e == getExtensionFromMimeType(mime)
    IN /\ ~e.err
       /\ \E i \in 1..Len(types) :
              \/ ToLower(types[i]) = ToLower(e.ext)
              \/ types[i] = Str("any")

\* ---------------------------------------------------------- notes (input)
Res(mime, data, file, entries) ==
    [Mime |-> mime, Data |-> data, FileName |-> file, Entries |-> entries]

RPdf == Res(<<"application", "/", "pdf">>, <<"A", "A", "A", "A">>, <<"a", ".pdf">>, <<>>)
RPng == Res(<<"image", "/", "png">>, <<"A", "A", "A", "A">>, <<"b", ".png">>, <<>>)
RNoMime == Res(<<"invalid">>, <<"A", "A", "A", "A">>, <<"c", ".pdf">>, <<>>)
RNot64 == Res(<<"application", "/", "pdf">>, <<"A", "@", "A", "A">>, <<"d", ".pdf">>, <<>>)
RShort == Res(<<"application", "/", "pdf">>, <<"A", "A", "\n", "A">>, <<"e", ".pdf">>, <<>>)
\* an archive; Entries are the extensions of the files unzipFile returns
RZip == Res(<<"application", "/", "zip">>, <<"B", "B", "B", "B">>, <<"z", ".zip">>, <<".PDF", ".png">>)

DateOK == "20220101T120000Z"
DateBad == "invaliddate"

TitledNote(title, tags, created, res) ==
    [Title |-> title, Tags |-> tags, Created |-> created, Resources |-> res]

Note(created, res) == TitledNote("untitled", <<>>, created, res)

NotePool ==
    { Note(DateOK, <<>>),
      Note(DateOK, <<RPng, RPdf>>),
      Note(DateOK, <<RPdf, RShort>>),
      Note(DateOK, <<RNot64, RNoMime>>),
      Note(DateBad, <<RPdf>>),
      Note(DateOK, <<RZip>>) }

\* an export of notes that each have exactly one resource of a wanted type,
\* with a payload that decodes, and a creation date of the export format
GoodPool ==
    { TitledNote("Test PDF Note", <<"SampleTag">>, DateOK, <<RPdf>>),
      TitledNote("Scan", <<"inbox", "SampleTag">>, DateOK, <<RPng, RPdf>>) }

\* a second document, a resource without a file name
RPdf2 == Res(<<"application", "/", "pdf">>, <<"B", "B", "B", "B">>, <<"f", ".pdf">>, <<>>)
RNoName == Res(<<"application", "/", "pdf">>, <<"A", "B", "A", "B">>, <<>>, <<>>)

\* notes with resources of each kind the worker tells apart
WorkerPool ==
    { Note(DateOK, <<RNot64, RPdf>>),
      Note(DateOK, <<RNoMime, RPng, RPdf>>),
      Note(DateOK, <<RPdf, RPdf2>>),
      TitledNote("My Important Document", <<>>, DateOK, <<RNoName>>),
      Note(DateOK, <<RShort>>) }

\* time.Parse("20060102T150405Z", s) fails
dateErr(created) == created # DateOK

\* settings.Unzip and a file name ending in ".zip"
Unzip == TRUE
isZip(r) == Unzip /\ Len(r.FileName) > 0 /\ Lower(r.FileName[Len(r.FileName)]) = ".zip"

\* ------------------------------------------------------------ the pipeline
Cycles == 0..MaxCycles
Workers == 1..MaxWorkers

NoNote == Note(DateOK, <<>>)
\* no PaperlessFile at hand
NoPf == [Title |-> "", FileName |-> <<>>, Data |-> <<>>, TagIds |-> <<>>]
\* resp: the status of the response to the worker's last upload, "" when it
\* has made none for the resource it is at
Idle == [st |-> "off", note |-> NoNote, idx |-> 0, ent |-> 0, pf |-> NoPf,
         resp |-> ""]

OptionSet ==
    [ConcurrentWorkers : 0..MaxWorkers,
     OutputFolder : BOOLEAN,      \* TRUE: an output folder is configured
     PromptNil : BOOLEAN,         \* TRUE: RetryPromptFunc is nil
     PathOK : BOOLEAN,            \* FilePath is set and Stat succeeds
     Malformed : BOOLEAN]         \* the file's token stream ends in an error

\* NewEnexFile, and Process not yet called
PipeStart ==
    /\ pc = "validate"
    /\ cycle = 0
    /\ exited = FALSE
    /\ prod = [st |-> "off", note |-> NoNote, idx |-> 0, emitted |-> 0]
    /\ noteClosed = FALSE
    /\ failClosed = FALSE
    /\ wk = [w \in Workers |-> Idle]
    /\ wg = 0
    /\ catcher = "off"
    /\ failedNotes = <<>>
    /\ failedThisCycle = <<>>
    /\ NumNotes = [c \in Cycles |-> 0]
    /\ Uploads = [c \in Cycles |-> 0]
    /\ notesProcessed = 0
    /\ filesUploaded = 0
    /\ shouldRetry = TRUE
    /\ result = [returned |-> FALSE, err |-> FALSE, NotesProcessed |-> 0,
                 FilesUploaded |-> 0, FailedNotes |-> <<>>]
    /\ panicked = FALSE
    /\ hist = [emittedWithRes |-> 0,
               persists |-> [c \in Cycles |-> 0],
               fed |-> <<>>,
               leftBehind |-> FALSE]

\* Process is called on a file whose token stream ends with io.EOF
PipeInit == opts \in OptionSet /\ ~opts.Malformed /\ PipeStart

Running == ~exited /\ ~panicked

\* a step of the pipeline leaves the other components alone
PipeOnly == UNCHANGED <<tagVars, zipVars, saveVars, typeVars>>

\* a Process that takes the concurrency level as it is given
DefaultWorkersNone(n) == n

\* if opts.ConcurrentWorkers <= 0 { opts.ConcurrentWorkers = 1 }
DefaultWorkers(n) == IF n <= 0 THEN 1 ELSE n

\* a Process that starts its goroutines without looking at the file path
ValidateNoStat ==
    /\ Running /\ pc = "validate" /\ PipeOnly
    /\ pc' = "spawn"
    /\ opts' = [opts EXCEPT !.ConcurrentWorkers = DefaultWorkers(@)]
    /\ UNCHANGED <<cycle, exited, prod, noteClosed, failClosed, wk, wg, catcher,
                   failedNotes, failedThisCycle, NumNotes, Uploads,
                   notesProcessed, filesUploaded, shouldRetry, result, panicked,
                   hist>>

\* ---- Process: validation
Validate ==
    /\ Running /\ pc = "validate" /\ PipeOnly
    /\ IF opts.PathOK
       THEN /\ pc' = "spawn"
            /\ opts' = [opts EXCEPT !.ConcurrentWorkers = DefaultWorkers(@)]
            /\ UNCHANGED result
       ELSE /\ pc' = "done"
            /\ result' = [result EXCEPT !.returned = TRUE, !.err = TRUE]
            /\ UNCHANGED opts
    /\ UNCHANGED <<cycle, exited, prod, noteClosed, failClosed, wk, wg, catcher,
                   failedNotes, failedThisCycle, NumNotes, Uploads,
                   notesProcessed, filesUploaded, shouldRetry, panicked, hist>>

\* ---- Process: go catcher, go producer, wg.Add(n), go workers
SpawnFirst ==
    /\ Running /\ pc = "spawn" /\ PipeOnly
    /\ catcher' = "run"
    /\ prod' = [prod EXCEPT !.st = "open"]
    /\ wg' = wg + opts.ConcurrentWorkers
    /\ wk' = [w \in Workers |->
                 IF w <= opts.ConcurrentWorkers
                 THEN [Idle EXCEPT !.st = "recv"] ELSE Idle]
    /\ pc' = "wait"
    /\ UNCHANGED <<opts, cycle, exited, noteClosed, failClosed, failedNotes,
                   failedThisCycle, NumNotes, Uploads, notesProcessed,
                   filesUploaded, shouldRetry, result, panicked, hist>>

\* ---- ReadFromFile: Fs.Open; a failure makes Process's goroutine call os.Exit(1)
ProducerOpen ==
    /\ Running /\ prod.st = "open" /\ PipeOnly
    /\ \E ok \in BOOLEAN :
          IF ok THEN prod' = [prod EXCEPT !.st = "read"] /\ UNCHANGED exited
          ELSE exited' = TRUE /\ UNCHANGED prod
    /\ UNCHANGED <<opts, pc, cycle, noteClosed, failClosed, wk, wg, catcher,
                   failedNotes, failedThisCycle, NumNotes, Uploads,
                   notesProcessed, filesUploaded, shouldRetry, result,
                   panicked, hist>>

\* ---- ReadFromFile: the decoder yields a note element
ProducerReadFrom(pool) ==
    /\ Running /\ prod.st = "read" /\ prod.emitted < MaxNotes /\ PipeOnly
    /\ \E n \in pool :
          prod' = [prod EXCEPT !.st = "send", !.note = n]
    /\ UNCHANGED <<opts, pc, cycle, exited, noteClosed, failClosed, wk, wg,
                   catcher, failedNotes, failedThisCycle, NumNotes, Uploads,
                   notesProcessed, filesUploaded, shouldRetry, result,
                   panicked, hist>>

ProducerRead == ProducerReadFrom(NotePool)

\* a ReadFromFile that leaves its loop and returns without close(NoteChannel)
ProducerCloseForgets ==
    /\ Running /\ prod.st = "read" /\ PipeOnly
    /\ prod' = [prod EXCEPT !.st = "done"]
    /\ UNCHANGED <<opts, pc, cycle, exited, noteClosed, failClosed, wk, wg,
                   catcher, failedNotes, failedThisCycle, NumNotes, Uploads,
                   notesProcessed, filesUploaded, shouldRetry, result,
                   panicked, hist>>

\* a ReadFromFile that returns the token error, on which Process's goroutine
\* calls os.Exit(1)
ProducerCloseFatal ==
    /\ Running /\ prod.st = "read" /\ PipeOnly
    /\ IF opts.Malformed
       THEN exited' = TRUE /\ UNCHANGED <<prod, noteClosed>>
       ELSE /\ prod' = [prod EXCEPT !.st = "done"]
            /\ noteClosed' = TRUE
            /\ UNCHANGED exited
    /\ UNCHANGED <<opts, pc, cycle, failClosed, wk, wg, catcher,
                   failedNotes, failedThisCycle, NumNotes, Uploads,
                   notesProcessed, filesUploaded, shouldRetry, result,
                   panicked, hist>>

\* ---- ReadFromFile: io.EOF, or the token error of a malformed file (logged):
\* leave the loop, close(NoteChannel), return nil
ProducerClose ==
    /\ Running /\ prod.st = "read" /\ PipeOnly
    /\ prod' = [prod EXCEPT !.st = "done"]
    /\ noteClosed' = TRUE
    /\ UNCHANGED <<opts, pc, cycle, exited, failClosed, wk, wg, catcher,
                   failedNotes, failedThisCycle, NumNotes, Uploads,
                   notesProcessed, filesUploaded, shouldRetry, result,
                   panicked, hist>>

\* ---- RetryFeeder: range over *failedNotes, then close(NoteChannel)
FeederNext ==
    /\ Running /\ prod.st = "feed" /\ PipeOnly
    /\ IF prod.idx <= Len(failedNotes)
       THEN /\ prod' = [prod EXCEPT !.st = "send", !.note = failedNotes[prod.idx]]
            /\ UNCHANGED noteClosed
       ELSE /\ prod' = [prod EXCEPT !.st = "done"]
            /\ noteClosed' = TRUE
    /\ UNCHANGED <<opts, pc, cycle, exited, failClosed, wk, wg, catcher,
                   failedNotes, failedThisCycle, NumNotes, Uploads,
                   notesProcessed, filesUploaded, shouldRetry, result,
                   panicked, hist>>

\* ---- UploadFromNoteChannel
\* what the filesystem or the remote system answers to one persist attempt
FolderAnswers == {"ok", "mkdirErr", "existsErr", "declined", "writeErr"}
\* the status of the response to the POST of a document
RemoteAnswers == {"200", "500"}

\* an Upload that takes every 2xx status for a success
UploadFails2xx(status) == status \notin {"200", "201", "204"}

\* if resp.StatusCode != 200 { return fmt.Errorf(...) }
UploadFails(status) == status # "200"

\* a worker that passes over a resource for its type only
skipsResourceForType(r) ==
    LET ft == checkFileType(r.Mime)
    IN ft.err \/ ~ft.ok

\* a worker that passes over a resource for its data only
skipsResourceForData(r) == ~validBase64(DecoderInput(r.Data))

\* the resource is passed over with a log line only (continue): its type is
\* not wanted or cannot be told, or its data is not base64
skipsResource(r) ==
    LET ft == checkFileType(r.Mime)
    IN ft.err \/ ~ft.ok \/ ~validBase64(DecoderInput(r.Data))

\* the first resource from index i on that is not passed over, or
\* Len(note.Resources) + 1; passing over touches nothing shared
RECURSIVE NextWanted(_, _)
NextWanted(note, i) ==
    IF i > Len(note.Resources) THEN i
    ELSE IF skipsResource(note.Resources[i]) THEN NextWanted(note, i + 1)
    ELSE i

\* filepath.Join(outputFolder, "") is the output folder: MkdirAll has made it,
\* so afero.Exists finds it, and a write to it, if the user asks for one,
\* fails because it is a directory
IsFolderItself(fileName) == fileName = <<>>

\* one pass of the resource loop's body up to its first effect on shared state:
\* "skip" (continue), "fail" (send the note, break), "zip", or "persisted"
ResourceStep(note, r, folder, answer) ==
    IF skipsResource(r) THEN "skip"
       ELSE IF ~decodeOK(DecoderInput(r.Data)) THEN "fail"
       ELSE IF isZip(r) THEN "zip"
       ELSE IF folder
            THEN (IF answer = "ok" /\ ~IsFolderItself(r.FileName)
                  THEN "persisted" ELSE "fail")
       ELSE IF dateErr(note.Created) THEN "fail"
       ELSE IF UploadFails(answer) THEN "fail" ELSE "persisted"

\* the for statement's step: the next resource, or the next note
Advance(rec) ==
    IF NextWanted(rec.note, rec.idx + 1) <= Len(rec.note.Resources)
    THEN [rec EXCEPT !.st = "res", !.idx = NextWanted(rec.note, rec.idx + 1),
                     !.ent = 0, !.pf = NoPf, !.resp = ""]
    ELSE [rec EXCEPT !.st = "recv", !.idx = 0, !.ent = 0, !.note = NoNote,
                     !.pf = NoPf, !.resp = ""]

\* a break that goes on with the next resource of the note
BreakGoesOn(rec) == Advance(rec)

\* break: leave the resource loop, back to the range over NoteChannel
Break(rec) ==
    [rec EXCEPT !.st = "recv", !.idx = 0, !.ent = 0, !.note = NoNote, !.pf = NoPf,
                !.resp = ""]

\* a feeder that drops the first resource of a note it feeds
FeederPayloadRest(n) == [n EXCEPT !.Resources = Tail(@)]

\* the note the RetryFeeder puts on the channel for an element of the list
FeederPayload(n) == n

\* a worker that takes every note for one with resources
hasResourcesAlways(n) == TRUE

\* if len(note.Resources) < 1 { continue }
hasResources(n) == Len(n.Resources) >= 1

\* an increment that does not reach the counter
AddLost(counter, c) == counter

\* counter.Add(1) on the atomic counter of cycle c
Add(counter, c) == [counter EXCEPT ![c] = @ + 1]

\* a note passes from the sender (ReadFromFile or RetryFeeder) to worker w
Handoff(w) ==
    /\ Running /\ prod.st = "send" /\ wk[w].st = "recv" /\ PipeOnly
    /\ LET n == IF cycle = 0 THEN prod.note ELSE FeederPayload(prod.note)
           has == hasResources(n)
       IN /\ wk' = [wk EXCEPT ![w] =
                       IF has THEN [@ EXCEPT !.st = "count", !.note = n] ELSE @]
          /\ prod' = IF cycle = 0
                     THEN [prod EXCEPT !.st = "read", !.note = NoNote,
                                       !.emitted = @ + 1]
                     ELSE [prod EXCEPT !.st = "feed", !.note = NoNote,
                                       !.idx = @ + 1]
          /\ hist' = [hist EXCEPT
                         !.emittedWithRes =
                             IF cycle = 0 /\ Len(n.Resources) >= 1
                             THEN @ + 1 ELSE @,
                         !.fed = IF cycle = 0 THEN @ ELSE Append(@, n)]
    /\ UNCHANGED <<opts, pc, cycle, exited, noteClosed, failClosed, wg, catcher,
                   failedNotes, failedThisCycle, NumNotes, Uploads,
                   notesProcessed, filesUploaded, shouldRetry, result, panicked>>

\* the range over NoteChannel ends; the goroutine calls wg.Done()
WorkerReturn(w) ==
    /\ Running /\ wk[w].st = "recv" /\ noteClosed /\ PipeOnly
    /\ wk' = [wk EXCEPT ![w].st = "done"]
    /\ wg' = wg - 1
    /\ UNCHANGED <<opts, pc, cycle, exited, prod, noteClosed, failClosed,
                   catcher, failedNotes, failedThisCycle, NumNotes, Uploads,
                   notesProcessed, filesUploaded, shouldRetry, result,
                   panicked, hist>>

\* e.NumNotes.Add(1)
WorkerCount(w) ==
    /\ Running /\ wk[w].st = "count" /\ PipeOnly
    /\ NumNotes' = Add(NumNotes, cycle)
    /\ wk' = [wk EXCEPT ![w] = Advance(@)]
    /\ UNCHANGED <<opts, pc, cycle, exited, prod, noteClosed, failClosed, wg,
                   catcher, failedNotes, failedThisCycle, Uploads,
                   notesProcessed, filesUploaded, shouldRetry, result,
                   panicked, hist>>

\* the ids the remote system has, or creates, for the tag names
TagIdOf(name) == CASE name = "SampleTag" -> 7 [] name = "inbox" -> 9 [] OTHER -> 11
AdditionalTags == <<>>

\* a PaperlessFile built from the undecoded payload and without the tags
NewPaperlessFileRaw(note, r) ==
    [Title |-> note.Title, FileName |-> r.FileName, Data |-> r.Data,
     TagIds |-> <<>>]

\* paperless.NewPaperlessFile(note.Title, ..., decodedData, allTags) and what
\* Upload puts into the request: the title, the tag ids, the document bytes
NewPaperlessFile(note, r) ==
    LET allTags == note.Tags \o AdditionalTags
    IN [Title |-> note.Title,
        FileName |-> IF r.FileName = <<>> THEN <<note.Title>> ELSE r.FileName,
        Data |-> DecodeString(DecoderInput(r.Data)),
        TagIds |-> [i \in 1..Len(allTags) |-> TagIdOf(allTags[i])]]

\* afero.WriteFile(e.Fs, fileName, decodedData, 0644): the file written into
\* the output folder, under the resource's file name
WrittenFile(note, r) ==
    [Title |-> "", FileName |-> r.FileName,
     Data |-> DecodeString(DecoderInput(r.Data)), TagIds |-> <<>>]

\* the loop body gets as far as paperlessFile.Upload()
ReachesUpload(note, r, folder) ==
    /\ ~folder /\ ~skipsResource(r) /\ decodeOK(DecoderInput(r.Data))
    /\ ~isZip(r) /\ ~dateErr(note.Created)

\* the body of the resource loop for resource idx
WorkerResourceGiven(w, folderAnswers, remoteAnswers) ==
    /\ Running /\ wk[w].st = "res" /\ PipeOnly
    /\ LET rec == wk[w]
           r == rec.note.Resources[rec.idx]
       IN \E answer \in (IF opts.OutputFolder THEN folderAnswers ELSE remoteAnswers) :
            LET step == ResourceStep(rec.note, r, opts.OutputFolder, answer)
                status == IF ReachesUpload(rec.note, r, opts.OutputFolder)
                          THEN answer ELSE ""
            IN /\ wk' = [wk EXCEPT ![w] =
                     CASE step = "skip" -> Advance(rec)
                       [] step = "fail" -> [rec EXCEPT !.st = "fail",
                                                       !.resp = status]
                       [] step = "zip" -> [rec EXCEPT !.st = "zip", !.ent = 1]
                       [] OTHER -> [rec EXCEPT !.st = "inc", !.resp = status,
                                       !.pf = IF opts.OutputFolder
                                              THEN WrittenFile(rec.note, r)
                                              ELSE NewPaperlessFile(rec.note, r)]]
               /\ hist' = IF step = "persisted"
                          THEN [hist EXCEPT !.persists[cycle] = @ + 1]
                          ELSE hist
    /\ UNCHANGED <<opts, pc, cycle, exited, prod, noteClosed, failClosed, wg,
                   catcher, failedNotes, failedThisCycle, NumNotes, Uploads,
                   notesProcessed, filesUploaded, shouldRetry, result, panicked>>

WorkerResource(w) == WorkerResourceGiven(w, FolderAnswers, RemoteAnswers)

\* a worker that goes on to the next resource in both modes
AfterUploadGoesOn(rec, folder) == Advance(rec)

\* a worker that leaves the resource loop after the increment in both modes
AfterUploadBreaks(rec, folder) == Break(rec)

\* what the worker does after e.Uploads.Add(1): in output-folder mode it
\* leaves the resource loop, otherwise it goes on to the next resource
AfterUpload(rec, folder) == IF folder THEN Break(rec) ELSE Advance(rec)

\* the note of worker w has a resource after the current one that passes the
\* type filter and the payload validation
MoreWanted(w) ==
    NextWanted(wk[w].note, wk[w].idx + 1) <= Len(wk[w].note.Resources)

\* e.Uploads.Add(1) after a successful write or upload
WorkerInc(w) ==
    /\ Running /\ wk[w].st = "inc" /\ PipeOnly
    /\ Uploads' = Add(Uploads, cycle)
    /\ wk' = [wk EXCEPT ![w] = AfterUpload(@, opts.OutputFolder)]
    /\ hist' = [hist EXCEPT
                   !.leftBehind = @ \/ (opts.OutputFolder /\ MoreWanted(w))]
    /\ UNCHANGED <<opts, pc, cycle, exited, prod, noteClosed, failClosed, wg,
                   catcher, failedNotes, failedThisCycle, NumNotes,
                   notesProcessed, filesUploaded, shouldRetry, result,
                   panicked>>

\* e.FailedNoteChannel <- note, received by FailedNoteCatcher, which appends
\* it to the list it was given; a send on a closed channel panics
WorkerSendFail(w) ==
    /\ Running /\ wk[w].st = "fail" /\ PipeOnly
    /\ IF failClosed
       THEN /\ panicked' = TRUE
            /\ UNCHANGED <<wk, failedNotes, failedThisCycle>>
       ELSE /\ catcher = "run"
            /\ IF cycle = 0
               THEN /\ failedNotes' = Append(failedNotes, wk[w].note)
                    /\ UNCHANGED failedThisCycle
               ELSE /\ failedThisCycle' = Append(failedThisCycle, wk[w].note)
                    /\ UNCHANGED failedNotes
            /\ wk' = [wk EXCEPT ![w] = Break(@)]
            /\ UNCHANGED panicked
    /\ UNCHANGED <<opts, pc, cycle, exited, prod, noteClosed, failClosed, wg,
                   catcher, NumNotes, Uploads, notesProcessed, filesUploaded,
                   shouldRetry, result, hist>>

\* ---- processZipFile: the loop over the extracted files
NextEntry(rec) ==
    IF rec.ent < Len(rec.note.Resources[rec.idx].Entries)
    THEN [rec EXCEPT !.st = "zip", !.ent = @ + 1]
    ELSE Advance(rec)

\* one extracted file: filtered out, or saved/uploaded with or without success
WorkerZipEntry(w) ==
    /\ Running /\ wk[w].st = "zip" /\ PipeOnly
    /\ LET rec == wk[w]
           entries == rec.note.Resources[rec.idx].Entries
       IN IF rec.ent > Len(entries)
          THEN wk' = [wk EXCEPT ![w] = Advance(rec)] /\ UNCHANGED hist
          ELSE IF ~zipFileTypeAllowed(FileTypes, getMimeType(entries[rec.ent]))
          THEN wk' = [wk EXCEPT ![w] = NextEntry(rec)] /\ UNCHANGED hist
          ELSE \E ok \in BOOLEAN :
                 IF ok
                 THEN /\ wk' = [wk EXCEPT ![w] = [rec EXCEPT !.st = "zinc"]]
                      /\ hist' = [hist EXCEPT !.persists[cycle] = @ + 1]
                 ELSE /\ wk' = [wk EXCEPT ![w] = NextEntry(rec)]
                      /\ UNCHANGED hist
    /\ UNCHANGED <<opts, pc, cycle, exited, prod, noteClosed, failClosed, wg,
                   catcher, failedNotes, failedThisCycle, NumNotes, Uploads,
                   notesProcessed, filesUploaded, shouldRetry, result, panicked>>

\* e.Uploads.Add(1) for an extracted file
WorkerZipInc(w) ==
    /\ Running /\ wk[w].st = "zinc" /\ PipeOnly
    /\ Uploads' = Add(Uploads, cycle)
    /\ wk' = [wk EXCEPT ![w] = NextEntry(@)]
    /\ UNCHANGED <<opts, pc, cycle, exited, prod, noteClosed, failClosed, wg,
                   catcher, failedNotes, failedThisCycle, NumNotes,
                   notesProcessed, filesUploaded, shouldRetry, result,
                   panicked, hist>>

\* ---- FailedNoteCatcher: the range over the closed channel ends
CatcherExit ==
    /\ Running /\ catcher = "run" /\ failClosed /\ PipeOnly
    /\ catcher' = "signal"
    /\ UNCHANGED <<opts, pc, cycle, exited, prod, noteClosed, failClosed, wk, wg,
                   failedNotes, failedThisCycle, NumNotes, Uploads,
                   notesProcessed, filesUploaded, shouldRetry, result,
                   panicked, hist>>

\* a wait that does not wait for the workers
WgWaitReturnsEarly == TRUE

\* ---- Process: wg.Wait() returns
WgWaitReturns == wg = 0

WaitWorkers ==
    /\ Running /\ pc = "wait" /\ WgWaitReturns /\ PipeOnly
    /\ pc' = "close"
    /\ UNCHANGED <<opts, cycle, exited, prod, noteClosed, failClosed, wk, wg,
                   catcher, failedNotes, failedThisCycle, NumNotes, Uploads,
                   notesProcessed, filesUploaded, shouldRetry, result,
                   panicked, hist>>

\* ---- Process: close(FailedNoteChannel)
CloseFailed ==
    /\ Running /\ pc = "close" /\ PipeOnly
    /\ failClosed' = TRUE
    /\ pc' = "signal"
    /\ UNCHANGED <<opts, cycle, exited, prod, noteClosed, wk, wg, catcher,
                   failedNotes, failedThisCycle, NumNotes, Uploads,
                   notesProcessed, filesUploaded, shouldRetry, result,
                   panicked, hist>>

\* a coordinator that goes on without the catcher's signal
RecvSignalNoWait ==
    /\ Running /\ pc = "signal" /\ PipeOnly
    /\ pc' = "tally"
    /\ UNCHANGED <<opts, cycle, exited, prod, noteClosed, failClosed, wk, wg,
                   catcher, failedNotes, failedThisCycle, NumNotes, Uploads,
                   notesProcessed, filesUploaded, shouldRetry, result,
                   panicked, hist>>

\* ---- Process: <-FailedNoteSignal, sent by the catcher's goroutine
RecvSignal ==
    /\ Running /\ pc = "signal" /\ catcher = "signal" /\ PipeOnly
    /\ catcher' = "done"
    /\ pc' = "tally"
    /\ UNCHANGED <<opts, cycle, exited, prod, noteClosed, failClosed, wk, wg,
                   failedNotes, failedThisCycle, NumNotes, Uploads,
                   notesProcessed, filesUploaded, shouldRetry, result,
                   panicked, hist>>

\* counts that add every cycle's notes, or keep only the last cycle's uploads
TallyNotesAll(c, np, counted) == IF c = 0 THEN counted ELSE np + counted
TallyUploadsLast(c, fu, counted) == counted

\* ---- Process: the counts after a cycle
TallyNotes(c, np, counted) == IF c = 0 THEN counted ELSE np
TallyUploads(c, fu, counted) == IF c = 0 THEN counted ELSE fu + counted

\* a retry cycle that adds its failures to the list of the cycle before
FailedAfterAppended(c, previous, thisCycle) ==
    IF c = 0 THEN previous ELSE previous \o thisCycle

\* failedNotes = failedThisCycle at the end of a retry cycle; the first cycle's
\* catcher has written into failedNotes itself
FailedAfter(c, previous, thisCycle) == IF c = 0 THEN previous ELSE thisCycle

Tally ==
    /\ Running /\ pc = "tally" /\ PipeOnly
    /\ notesProcessed' = TallyNotes(cycle, notesProcessed, NumNotes[cycle])
    /\ filesUploaded' = TallyUploads(cycle, filesUploaded, Uploads[cycle])
    /\ failedNotes' = FailedAfter(cycle, failedNotes, failedThisCycle)
    /\ pc' = "decide"
    /\ UNCHANGED <<opts, cycle, exited, prod, noteClosed, failClosed, wk, wg,
                   catcher, failedThisCycle, NumNotes, Uploads, shouldRetry,
                   result, panicked, hist>>

\* ---- Process: the head of the retry loop
\* a coordinator that declines when there is no callback
RetryAnswersNilDeclines(promptNil) == IF promptNil THEN {FALSE} ELSE BOOLEAN

\* the values shouldRetry can take at a decision
RetryAnswers(promptNil) == IF promptNil THEN {TRUE} ELSE BOOLEAN

\* a retry loop that is left at every decision
DecideDoneAlways ==
    /\ Running /\ pc = "decide" /\ PipeOnly
    /\ pc' = "return"
    /\ UNCHANGED <<opts, cycle, exited, prod, noteClosed, failClosed, wk, wg,
                   catcher, failedNotes, failedThisCycle, NumNotes, Uploads,
                   notesProcessed, filesUploaded, shouldRetry, result, panicked,
                   hist>>

DecideDone ==
    /\ Running /\ pc = "decide" /\ PipeOnly
    /\ \/ /\ failedNotes = <<>>
          /\ UNCHANGED shouldRetry
       \/ /\ failedNotes # <<>>
          /\ FALSE \in RetryAnswers(opts.PromptNil)
          /\ shouldRetry' = FALSE
    /\ pc' = "return"
    /\ UNCHANGED <<opts, cycle, exited, prod, noteClosed, failClosed, wk, wg,
                   catcher, failedNotes, failedThisCycle, NumNotes, Uploads,
                   notesProcessed, filesUploaded, result, panicked, hist>>

\* a retry cycle that starts as many workers as the first cycle
RetryWorkersAsConfigured(n) == n

\* wg.Add(1) and one go statement, whatever opts.ConcurrentWorkers is
RetryWorkers(n) == 1

\* a retry cycle: a fresh EnexFile, its catcher, the feeder and one worker
DecideRetry ==
    /\ Running /\ pc = "decide" /\ PipeOnly
    /\ failedNotes # <<>>
    /\ TRUE \in RetryAnswers(opts.PromptNil)
    /\ cycle < MaxCycles
    /\ shouldRetry' = TRUE
    /\ failedThisCycle' = <<>>
    /\ cycle' = cycle + 1
    /\ noteClosed' = FALSE
    /\ failClosed' = FALSE
    /\ catcher' = "run"
    /\ prod' = [st |-> "feed", note |-> NoNote, idx |-> 1, emitted |-> prod.emitted]
    /\ wg' = wg + RetryWorkers(opts.ConcurrentWorkers)
    /\ wk' = [w \in Workers |->
                 IF w <= RetryWorkers(opts.ConcurrentWorkers)
                 THEN [Idle EXCEPT !.st = "recv"] ELSE Idle]
    /\ hist' = [hist EXCEPT !.fed = <<>>]
    /\ pc' = "wait"
    /\ UNCHANGED <<opts, exited, failedNotes, NumNotes, Uploads, notesProcessed,
                   filesUploaded, result, panicked>>

\* ---- Process: the final result
\* a Process that reports no error whatever is left in the list
ReturnsErrorNever(failed) == FALSE

\* if len(failedNotes) > 0 { return result, fmt.Errorf(...) }; return result, nil
ReturnsError(failed) == Len(failed) > 0

Return ==
    /\ Running /\ pc = "return" /\ PipeOnly
    /\ result' = [returned |-> TRUE, err |-> ReturnsError(failedNotes),
                  NotesProcessed |-> notesProcessed,
                  FilesUploaded |-> filesUploaded,
                  FailedNotes |-> failedNotes]
    /\ pc' = "done"
    /\ UNCHANGED <<opts, cycle, exited, prod, noteClosed, failClosed, wk, wg,
                   catcher, failedNotes, failedThisCycle, NumNotes, Uploads,
                   notesProcessed, filesUploaded, shouldRetry, panicked, hist>>

PipeNext ==
    \/ Validate \/ SpawnFirst
    \/ ProducerOpen \/ ProducerRead \/ ProducerClose \/ FeederNext
    \/ \E w \in Workers :
          \/ Handoff(w) \/ WorkerReturn(w) \/ WorkerCount(w)
          \/ WorkerResource(w) \/ WorkerInc(w) \/ WorkerSendFail(w)
          \/ WorkerZipEntry(w) \/ WorkerZipInc(w)
    \/ CatcherExit \/ WaitWorkers \/ CloseFailed \/ RecvSignal
    \/ Tally \/ DecideDone \/ DecideRetry \/ Return


\* ------------------------------------------------- properties of the pipeline
Busy == {"count", "res", "inc", "fail", "zip", "zinc"}
Range(seq) == {seq[i] : i \in 1..Len(seq)}
RECURSIVE SumTo(_, _)
SumTo(f, c) == IF c = 0 THEN f[0] ELSE f[c] + SumTo(f, c - 1)
Pending == Cardinality({w \in Workers : wk[w].st \in {"inc", "zinc"}})
SetupOK == opts.PathOK

\* C3: Process leaves its retry loop exactly when, at a retry decision, the
\* failure list is empty or the callback returned false; and with every step
\* that can be taken eventually taken, a decision with an empty list, or a
\* declined retry, leads to Process returning its result.
C3_RetryLoopTerminates ==
    /\ [][(pc = "decide" /\ pc' # "decide") =>
            /\ pc' \in {"return", "wait"}
            /\ (pc' = "return") <=>
                  (failedNotes = <<>> \/ (~opts.PromptNil /\ ~shouldRetry'))]_vars
    /\ (pc = "return" \/ (pc = "decide" /\ failedNotes = <<>>)) ~> result.returned

C3_Witness ==
    /\ result.returned /\ SetupOK /\ cycle >= 1
    /\ result.FailedNotes = <<>> /\ shouldRetry

\* C4 as stated: at a decision with a non-empty failure list and no callback,
\* Process goes to its result (it declines) and returns the notes as failed.
C4_NilPromptDeclines ==
    [][(pc = "decide" /\ failedNotes # <<>> /\ opts.PromptNil /\ pc' # "decide")
         => pc' = "return"]_vars

\* C4 amended: at a decision with a non-empty failure list and no callback,
\* Process never declines: the only step it takes starts a retry cycle with
\* shouldRetry true, and a result it returns without a callback has no failed
\* note.
C4_NilPromptRetries ==
    /\ [][(pc = "decide" /\ failedNotes # <<>> /\ opts.PromptNil /\ pc' # "decide")
            => (pc' = "wait" /\ cycle' = cycle + 1 /\ shouldRetry')]_vars
    /\ []((result.returned /\ SetupOK /\ opts.PromptNil)
            => (result.FailedNotes = <<>> /\ ~result.err))

C4_Witness == opts.PromptNil /\ cycle >= 1 /\ pc = "wait" /\ failedNotes # <<>>

\* C5: the failure channel is closed only after every worker of the cycle has
\* returned, and no worker ever sends on the closed channel.
C5_CloseAfterWorkers ==
    /\ ~panicked
    /\ failClosed => (wg = 0 /\ \A w \in Workers : wk[w].st \in {"off", "done"})
    /\ \A w \in Workers : wk[w].st = "fail" => ~failClosed

C5_Witness ==
    /\ failClosed /\ opts.ConcurrentWorkers >= 2
    /\ Len(failedNotes) >= 2

\* C6: once all workers of the first cycle have returned, the processed-notes
\* counter equals the number of emitted notes with at least one resource; a
\* note without resources is never held for processing by a worker, and never
\* reaches a failure list.
C6_CountsNotesWithResources ==
    /\ (pc \notin {"validate", "spawn"} /\ (cycle > 0 \/ wg = 0))
          => NumNotes[0] = hist.emittedWithRes
    /\ \A w \in Workers : wk[w].st \in Busy => Len(wk[w].note.Resources) >= 1
    /\ \A n \in Range(failedNotes) \cup Range(failedThisCycle) :
          Len(n.Resources) >= 1

C6_Witness ==
    /\ pc = "close" /\ cycle = 0 /\ opts.ConcurrentWorkers >= 2
    /\ NumNotes[0] = 1 /\ prod.emitted = 2

\* C7 as stated: in every reachable state the uploaded-files counter of a
\* cycle equals the number of persist operations that succeeded in it.
C7_UploadsEqualPersists ==
    \A c \in Cycles : Uploads[c] = hist.persists[c]

\* C7 amended: in every reachable state the counter of a cycle plus the number
\* of workers that have persisted and not yet incremented equals the number of
\* successful persists of that cycle; so the two are equal whenever no worker
\* is between a persist and its increment, and once all workers have returned.
C7_UploadsTrackPersists ==
    /\ \A c \in Cycles :
          Uploads[c] + (IF c = cycle THEN Pending ELSE 0) = hist.persists[c]
    /\ (pc \notin {"validate", "spawn"} /\ wg = 0)
          => \A c \in Cycles : Uploads[c] = hist.persists[c]

C7_Witness ==
    /\ pc = "close" /\ opts.ConcurrentWorkers >= 2
    /\ Uploads[0] >= 2 /\ failedNotes # <<>>

\* C8: in a retry cycle the feeder puts the failed notes of the cycle before on
\* the channel one by one, each whole as it was sent to the failure channel,
\* the worker holds such a note with nothing of it processed yet, and by the
\* end of the cycle every failed note has been fed.
C8_RetryFeedsWholeNotes ==
    (cycle >= 1 /\ pc \in {"wait", "close", "signal", "tally"}) =>
        /\ Len(hist.fed) <= Len(failedNotes)
        /\ hist.fed = SubSeq(failedNotes, 1, Len(hist.fed))
        /\ \A w \in Workers :
              /\ wk[w].st \in Busy => wk[w].note = failedNotes[Len(hist.fed)]
              /\ wk[w].st = "count" => wk[w].idx = 0
        /\ pc # "wait" => hist.fed = failedNotes

\* the only note of the file had its first resource uploaded in the first
\* cycle and failed at its second; retried, its first resource is uploaded
\* again
C8_Witness ==
    /\ cycle = 1 /\ ~opts.OutputFolder /\ prod.emitted = 1
    /\ Uploads[0] = 1 /\ failedNotes = <<Note(DateOK, <<RPdf, RShort>>)>>
    /\ wk[1].st = "inc" /\ wk[1].idx = 1 /\ wk[1].note = failedNotes[1]

\* C9: the NotesProcessed of the result is the first cycle's counter only.
C9_NotesProcessedFirstCycle ==
    /\ (result.returned /\ SetupOK) => result.NotesProcessed = NumNotes[0]
    /\ (pc \in {"decide", "return"} \/ cycle >= 1) => notesProcessed = NumNotes[0]

C9_Witness ==
    /\ result.returned /\ cycle >= 1
    /\ NumNotes[1] >= 1 /\ result.NotesProcessed >= 1

\* C10: the FilesUploaded of the result is the sum of the Uploads counters of
\* the first cycle and of every retry cycle that ran.
C10_FilesUploadedSum ==
    /\ (result.returned /\ SetupOK) => result.FilesUploaded = SumTo(Uploads, cycle)
    /\ pc \in {"decide", "return"} => filesUploaded = SumTo(Uploads, cycle)

C10_Witness ==
    /\ result.returned /\ cycle = 2
    /\ Uploads[0] >= 1 /\ Uploads[1] >= 1 /\ Uploads[2] >= 1

\* the notes sent on the failure channel, and the notes handed to a worker
\* with at least one resource, in the current cycle
SentThisCycle == IF cycle = 0 THEN Len(failedNotes) ELSE Len(failedThisCycle)
HandedThisCycle == IF cycle = 0 THEN hist.emittedWithRes ELSE Len(hist.fed)
Holding == Cardinality({w \in Workers : wk[w].st \in Busy})

\* C11: a worker whose processing of a resource failed (decode, file system or
\* remote failure) sends the note it holds on the failure channel, once, and
\* with that send it lets go of the note: it is back at the note channel with
\* no resource of the note left to process, the send persists nothing and
\* counts nothing; only a worker that holds a note persists or counts; and in
\* a cycle there are never more sends than notes handed to workers that are
\* no longer held.
C11_FailSendsOnceAndBreaks ==
    /\ [][\A w \in Workers :
            /\ (wk[w].st = "fail" /\ wk'[w] # wk[w]) =>
                  /\ wk'[w].st = "recv" /\ wk'[w].note = NoNote
                  /\ IF cycle = 0
                     THEN failedNotes' = Append(failedNotes, wk[w].note)
                     ELSE failedThisCycle' = Append(failedThisCycle, wk[w].note)
                  /\ Uploads' = Uploads /\ hist'.persists = hist.persists
            /\ (wk[w].st = "res" /\ wk'[w].st = "fail") =>
                  (wk'[w].note = wk[w].note /\ hist'.persists = hist.persists)]_vars
    /\ [][(Uploads' # Uploads \/ hist'.persists # hist.persists) =>
            \E w \in Workers : wk[w].st \in {"res", "inc", "zip", "zinc"}
                                /\ wk'[w] # wk[w]]_vars
    /\ [](SentThisCycle + Holding <= HandedThisCycle)

\* the only note of the file failed at the upload of its first resource; its
\* second resource, which cannot be decoded, was not tried: one send, no upload
C11_Witness ==
    /\ pc = "close" /\ cycle = 0 /\ ~opts.OutputFolder /\ prod.emitted = 1
    /\ failedNotes = <<Note(DateOK, <<RPdf, RShort>>)>>
    /\ Uploads[0] = 0 /\ hist.persists[0] = 0

\* no goroutine of the pipeline was started and no channel was touched
NothingStarted ==
    /\ catcher = "off" /\ prod.st = "off" /\ prod.emitted = 0
    /\ \A w \in Workers : wk[w] = Idle
    /\ wg = 0 /\ ~noteClosed /\ ~failClosed /\ ~exited /\ ~panicked
    /\ failedNotes = <<>> /\ failedThisCycle = <<>>

\* C14: with an empty or inaccessible input path Process returns an error
\* before it starts the producer, a worker or the catcher: the only step it
\* takes is the return of the error, no channel is used, both counters stay
\* 0 and nothing is persisted.
C14_BadPathFailsBeforeSpawn ==
    ~opts.PathOK =>
        /\ NothingStarted
        /\ pc \in {"validate", "done"}
        /\ pc = "done" => (result.returned /\ result.err)
        /\ \A c \in Cycles : NumNotes[c] = 0 /\ Uploads[c] = 0
                               /\ hist.persists[c] = 0
        /\ result.NotesProcessed = 0 /\ result.FilesUploaded = 0
        /\ result.FailedNotes = <<>>

C14_Witness ==
    /\ ~opts.PathOK /\ opts.ConcurrentWorkers = 2 /\ pc = "done"
    /\ result.returned /\ result.err /\ NothingStarted

\* C15 as stated: a Process call with concurrency level zero returns an error
\* and processes no note.
C15_ZeroWorkersIsError ==
    /\ NothingStarted
    /\ result.returned => result.err
    /\ \A c \in Cycles : NumNotes[c] = 0

\* C15 amended: a Process call with concurrency level zero is not an error of
\* its own: on an accessible file Process takes the level for 1 and runs the
\* pipeline with exactly one worker, and what it returns is the result of
\* that run, without error when no note is left failed.
C15_ZeroWorkersRunsOne ==
    (opts.PathOK /\ pc # "validate") =>
        /\ opts.ConcurrentWorkers = 1
        /\ \A w \in Workers : w > 1 => wk[w].st = "off"
        /\ pc # "spawn" => wk[1].st # "off"
        /\ result.returned =>
              /\ result.err <=> result.FailedNotes # <<>>
              /\ result.NotesProcessed = NumNotes[0]

C15_Witness ==
    /\ opts.PathOK /\ result.returned /\ ~result.err
    /\ result.NotesProcessed = 2 /\ result.FilesUploaded >= 2

CycleEnded ==
    /\ pc = "decide" /\ catcher = "done" /\ wg = 0
    /\ \A w \in Workers : wk[w].st \in {"off", "done"}

\* C17: no cycle deadlocks. Once the input file is open the producer closes
\* the note channel, once, when the token stream ends, with io.EOF or with an
\* error, and the feeder of a retry cycle closes it after the last failed
\* note; so, with every goroutine that can take a step eventually taking one,
\* for any number of workers from 1 on, every cycle comes to the state in
\* which all workers have returned, the catcher has signalled and Process is
\* at the retry decision.
C17_EveryCycleEnds ==
    /\ [][(noteClosed' /\ ~noteClosed) =>
            (prod.st \in {"read", "feed"} /\ prod'.st = "done")]_vars
    /\ [](prod.st = "done" => noteClosed)
    /\ ((prod.st = "read" /\ cycle = 0) \/ (pc = "wait" /\ cycle >= 1))
          ~> CycleEnded

\* the end of a retry cycle of a file whose token stream ended in an error
\* after two notes, processed by two workers
C17_Witness ==
    /\ CycleEnded /\ cycle = 1 /\ opts.Malformed /\ opts.ConcurrentWorkers = 2
    /\ prod.emitted = 2 /\ NumNotes[0] = 2

\* the resource of a note that the type filter lets through
Admitted(note) ==
    {i \in 1..Len(note.Resources) : checkFileType(note.Resources[i].Mime).ok}

C23_BadDateFailsNote ==
    /\ [](\A w \in Workers :
            dateErr(wk[w].note.Created) => wk[w].st \notin {"inc", "zinc"})
    /\ [][\A w \in Workers :
            (wk[w].st = "res" /\ dateErr(wk[w].note.Created) /\ wk'[w] # wk[w])
                => wk'[w].st = "fail"]_vars

\* the list the failure catcher of the current cycle appends to
Accumulator == IF cycle = 0 THEN failedNotes ELSE failedThisCycle

\* C34: when the coordinator reads the failure accumulator of a cycle (for
\* its counts and its retry decision) the workers have returned, the failure
\* channel is closed and the catcher has drained it and signalled; until
\* then the accumulator grows only by the note of a worker that sends it on
\* the failure channel, one append for one send, and is not touched
\* otherwise; the list the decision is taken on is that accumulator.
C34_DecisionSeesTheCycleFailures ==
    /\ [](pc \in {"tally", "decide"} =>
            /\ catcher = "done" /\ failClosed /\ wg = 0
            /\ \A w \in Workers : wk[w].st \in {"off", "done"})
    /\ [][(cycle' = cycle /\ Accumulator' # Accumulator) =>
            /\ pc = "wait" /\ catcher = "run"
            /\ \E w \in Workers :
                  /\ wk[w].st = "fail" /\ wk'[w].st = "recv"
                  /\ Accumulator' = Append(Accumulator, wk[w].note)]_vars
    /\ [][cycle' # cycle => (pc = "decide" /\ failedThisCycle' = <<>>
                             /\ failedNotes' = failedNotes)]_vars
    /\ [](pc = "decide" => failedNotes = Accumulator)

\* the retry decision after a retry cycle in which the fed note failed again
C34_Witness ==
    /\ pc = "decide" /\ cycle = 1 /\ catcher = "done"
    /\ Len(failedNotes) = 1 /\ failedNotes = failedThisCycle
    /\ hist.fed = failedNotes

\* the goroutines running UploadFromNoteChannel in the current cycle
Started == {w \in Workers : wk[w].st # "off"}

\* C35: a retry cycle starts with both channels of its EnexFile open, its
\* two counters at zero, one failure catcher and one worker, whatever the
\* configured concurrency; while it runs there is that one worker, the notes
\* come from the feeder and are notes of the previous cycle's failure list,
\* the input file is not read (no further note is emitted from it), and no
\* goroutine sends on a closed channel.
C35_RetryCycleIsFresh ==
    /\ [][cycle' # cycle =>
            /\ cycle' = cycle + 1
            /\ ~noteClosed' /\ ~failClosed'
            /\ NumNotes'[cycle'] = 0 /\ Uploads'[cycle'] = 0
            /\ catcher' = "run" /\ wg' = 1 /\ Cardinality(Started') = 1
            /\ prod'.st = "feed"]_vars
    /\ [](cycle >= 1 =>
            /\ Cardinality(Started) = 1 /\ wg <= 1 /\ ~panicked
            /\ prod.st \in {"feed", "send", "done"}
            /\ prod.st = "send" => prod.note \in Range(failedNotes)
            /\ \A w \in Started :
                  wk[w].st \in Busy => wk[w].note \in Range(failedNotes))
    /\ [][cycle >= 1 => prod'.emitted = prod.emitted]_vars

\* a retry cycle of a run configured with two workers: one worker at a
\* resource of the failed note, the other not started
C35_Witness ==
    /\ cycle = 1 /\ opts.ConcurrentWorkers = 2 /\ prod.emitted = 2
    /\ wk[1].st = "res" /\ wk[2].st = "off" /\ wg = 1
    /\ wk[1].note \in Range(failedNotes)

Occurrences(list, x) == Cardinality({i \in 1..Len(list) : list[i] = x})
SubMultiset(a, b) == \A x \in Range(a) : Occurrences(a, x) <= Occurrences(b, x)

\* C37: the failure list never grows across retry cycles. During a retry cycle
\* the notes failed so far are a sub-multiset of the notes fed so far, which
\* are a prefix of the previous list; the previous list changes only at the
\* end of the cycle, where it is replaced by the cycle's own list, which is
\* no longer than it and a sub-multiset of it; and the FailedNotes of the
\* result are the list of the last cycle that ran.
C37_FailureListNeverGrows ==
    /\ [](cycle >= 1 /\ pc \in {"wait", "close", "signal", "tally"}
            => /\ SubMultiset(failedThisCycle, hist.fed)
               /\ SubMultiset(hist.fed, failedNotes)
               /\ Len(failedThisCycle) <= Len(failedNotes))
    /\ [][(cycle >= 1 /\ failedNotes' # failedNotes)
            => /\ pc = "tally" /\ cycle' = cycle
               /\ failedNotes' = failedThisCycle
               /\ SubMultiset(failedNotes', failedNotes)
               /\ Len(failedNotes') < Len(failedNotes)]_vars
    /\ [](result.returned
            => /\ result.FailedNotes = failedNotes
               /\ result.FailedNotes = Accumulator)

\* a retry cycle that was fed two notes ends with one of them in the list,
\* and that list is the one returned
C37_Witness ==
    /\ result.returned /\ cycle = 1
    /\ Len(hist.fed) = 2 /\ Len(result.FailedNotes) = 1
    /\ result.FailedNotes = failedThisCycle

\* C38: once the file path has been accepted, Process returns an error exactly
\* when the FailedNotes of its result are not empty, and with or without an
\* error the result carries the counts of notes processed and files uploaded.
C38_ErrorIffFailedNotes ==
    (result.returned /\ SetupOK)
        => /\ result.err <=> result.FailedNotes # <<>>
           /\ result.NotesProcessed = notesProcessed
           /\ result.NotesProcessed = NumNotes[0]
           /\ result.FilesUploaded = filesUploaded
           /\ result.FilesUploaded = SumTo(Uploads, cycle)

\* an error returned together with the counts: two notes processed, one file
\* uploaded, one note left in the list
C38_Witness ==
    /\ result.returned /\ SetupOK /\ result.err
    /\ Len(result.FailedNotes) = 1
    /\ result.NotesProcessed = 2 /\ result.FilesUploaded = 1

\* ---- the worker and the resources it passes over
AtResource == {"res", "inc", "fail"}
Held(w) == wk[w].note.Resources[wk[w].idx]
ValidPayload(r) == validBase64(StripWs(r.Data))
AdmittedType(r) == LET ft == checkFileType(r.Mime) IN ~ft.err /\ ft.ok
Least(S) == CHOOSE x \in S : \A y \in S : x <= y
\* the first resource after index i with a payload of the base64 form, with an
\* admitted type; one past the last resource when there is none
NextValid(note, i) ==
    Least({j \in (i+1)..Len(note.Resources) : ValidPayload(note.Resources[j])}
              \cup {Len(note.Resources) + 1})
NextAdmitted(note, i) ==
    Least({j \in (i+1)..Len(note.Resources) : AdmittedType(note.Resources[j])}
              \cup {Len(note.Resources) + 1})
\* worker w takes the for statement's step: after counting the note, or after
\* an upload
ForStep(w) ==
    /\ wk[w].st \in {"count", "inc"} /\ wk'[w] # wk[w]
    /\ wk[w].st = "inc" => ~opts.OutputFolder

\* C22: a resource whose payload, newlines and spaces removed, is not of the
\* base64 form is passed over: the worker neither persists it nor fails the
\* note over it (it is never the resource a worker saves, uploads or sends the
\* note for), the worker goes on from it to the note's next resource (in a
\* note whose resources all have an admitted type, the first one with a
\* payload of the base64 form), and the note counts as processed.
C22_BadPayloadPassedOver ==
    /\ [](\A w \in Workers : wk[w].st \in AtResource => ValidPayload(Held(w)))
    /\ [][\A w \in Workers :
            (ForStep(w) /\ \A j \in 1..Len(wk[w].note.Resources) :
                               AdmittedType(wk[w].note.Resources[j]))
                => LET k == NextValid(wk[w].note, wk[w].idx)
                   IN IF k <= Len(wk[w].note.Resources)
                      THEN wk'[w].st = "res" /\ wk'[w].idx = k
                           /\ wk'[w].note = wk[w].note
                      ELSE wk'[w].st = "recv"]_vars
    /\ [](result.returned => result.NotesProcessed = prod.emitted)

\* the note with a payload that is not base64 and a document: the document was
\* saved, the note was counted and was not failed
C22_Witness ==
    /\ \E w \in Workers :
          /\ wk[w].st = "inc" /\ wk[w].note.Resources = <<RNot64, RPdf>>
          /\ wk[w].idx = 2 /\ opts.OutputFolder
    /\ NumNotes[0] = 1 /\ prod.emitted = 1 /\ failedNotes = <<>>

\* C29: a resource whose type is not admitted, or whose MIME string has not
\* exactly one "/" (getExtensionFromMimeType returns an error), is passed over:
\* it is never the resource a worker saves, uploads or fails the note for, and
\* the worker goes on from it to the note's next resource (in a note whose
\* payloads all have the base64 form, the first one with an admitted type).
C29_UnwantedTypePassedOver ==
    /\ [](\A w \in Workers :
            wk[w].st \in AtResource =>
                /\ Len(SplitSlash(Held(w).Mime)) = 2
                /\ AdmittedType(Held(w)))
    /\ [][\A w \in Workers :
            (ForStep(w) /\ \A j \in 1..Len(wk[w].note.Resources) :
                               ValidPayload(wk[w].note.Resources[j]))
                => LET k == NextAdmitted(wk[w].note, wk[w].idx)
                   IN IF k <= Len(wk[w].note.Resources)
                      THEN wk'[w].st = "res" /\ wk'[w].idx = k
                           /\ wk'[w].note = wk[w].note
                      ELSE wk'[w].st = "recv"]_vars

\* the note with a MIME string without "/", an image and a document: the
\* worker is at the document, nothing was saved and no note was failed
C29_Witness ==
    /\ \E w \in Workers :
          /\ wk[w].st = "res" /\ wk[w].note.Resources = <<RNoMime, RPng, RPdf>>
          /\ wk[w].idx = 3
    /\ hist.persists[0] = 0 /\ failedNotes = <<>> /\ NumNotes[0] = 1

\* C24 as stated: a resource without a file name is persisted under the
\* note's title, in output-folder mode as in upload mode: what is written or
\* uploaded for it bears the title as its file name, and in output-folder
\* mode, where the file system does what it is asked, the note is not failed.
C24_NoNameSavedUnderTitle ==
    \A w \in Workers :
        (wk[w].st \in AtResource /\ Held(w).FileName = <<>>)
            => /\ wk[w].st = "inc" => wk[w].pf.FileName = <<wk[w].note.Title>>
               /\ opts.OutputFolder => wk[w].st # "fail"

C27_Any2xxPersists ==
    \A w \in Workers :
        wk[w].resp # "" =>
            (IF wk[w].resp \in {"200", "201", "204"}
             THEN wk[w].st = "inc" ELSE wk[w].st = "fail")

\* C27 amended: an upload answered with status 200 counts as a persist (the
\* worker goes on to increment the uploaded-files counter and does not fail
\* the note); every other status, 201 and 204 among them, fails the note and
\* leaves the counter alone.
C27_Only200Persists ==
    \A w \in Workers :
        wk[w].resp # "" =>
            (IF wk[w].resp = "200"
             THEN wk[w].st = "inc" /\ wk[w].pf # NoPf
             ELSE wk[w].st = "fail" /\ wk[w].pf = NoPf)

\* an upload was answered 201 Created and the worker is about to send the note
\* on the failure channel, with nothing counted
C27_Witness ==
    \E w \in Workers :
        /\ wk[w].resp = "201" /\ wk[w].st = "fail" /\ ~opts.OutputFolder
        /\ hist.persists[0] = 0 /\ Uploads[0] = 0

\* ---- the string handed to the decoder
\* data followed by "=" up to a length that is a multiple of 4
Padded(data) ==
    data \o [i \in 1..((4 - (Len(data) % 4)) % 4) |-> "="]
AlphabetOnly(data) == \A i \in 1..Len(data) : data[i] \in Base64Alphabet

\* C28: for a payload of base64-alphabet characters the decoder is handed the
\* payload without its newlines and spaces, padded with "=" to a multiple of
\* 4 characters; the worker that holds such a resource fails the note only for
\* another reason (the timestamp, the answer to the upload, the write).
C28_PaddedBeforeDecoding ==
    \A w \in Workers :
        (/\ wk[w].st \in AtResource
         /\ wk[w].idx \in 1..Len(wk[w].note.Resources)
         /\ AlphabetOnly(StripWs(Held(w).Data)))
            => /\ DecoderInput(Held(w).Data) = Padded(StripWs(Held(w).Data))
               /\ wk[w].st = "fail"
                    => \/ wk[w].resp # ""
                       \/ dateErr(wk[w].note.Created)
                       \/ opts.OutputFolder /\ IsFolderItself(Held(w).FileName)

\* ------------------------------------------------------------ the tag cache
TagNames == {"inbox", "tax"}
TagCallers == 1..MaxCallers
NoEntry == -1
ExistingIds == {9}

TagIdle ==
    /\ tagCache = [n \in TagNames |-> NoEntry]
    /\ tagMutex = [writer |-> 0, readers |-> 0]
    /\ nextTagId = 1
    /\ tagHist = [remote0 |-> [n \in TagNames |-> 0],
                  createCalls |-> [n \in TagNames |-> 0],
                  created |-> [n \in TagNames |-> 0],
                  faults |-> 0,
                  lateHits |-> 0]
    /\ remoteTags = [n \in TagNames |-> 0]
    /\ tc = [c \in TagCallers |-> [st |-> "off", name |-> "inbox", id |-> 0, err |-> FALSE]]

\* the process starts with an empty cache; the remote system may hold tags
TagInit ==
    /\ tagCache = [n \in TagNames |-> NoEntry]
    /\ tagMutex = [writer |-> 0, readers |-> 0]
    /\ nextTagId = 1
    /\ remoteTags \in [TagNames -> {0} \cup ExistingIds]
    /\ tagHist = [remote0 |-> remoteTags,
                  createCalls |-> [n \in TagNames |-> 0],
                  created |-> [n \in TagNames |-> 0],
                  faults |-> 0,
                  lateHits |-> 0]
    /\ tc \in [TagCallers -> [st : {"start"}, name : TagNames, id : {0}, err : {FALSE}]]

TagOnly == UNCHANGED <<pipeVars, zipVars, saveVars, typeVars>>

\* a lock that excludes no one
CanLockAlways(m) == TRUE

\* tagCacheMutex.RLock() / Lock() can be taken
CanRLock(m) == m.writer = 0
CanLock(m) == m.writer = 0 /\ m.readers = 0

\* a cache that is never found to hold anything
cacheHitNever(cache, name) == FALSE

\* id, exists := tagCache[tagName]
cacheHit(cache, name) == cache[name] # NoEntry

\* return id, nil / return 0, err
Returned(rec, id, err) == [rec EXCEPT !.st = "done", !.id = id, !.err = err]

\* tagCacheMutex.RLock()
TagRLock(c) ==
    /\ TagOnly /\ tc[c].st = "start" /\ CanRLock(tagMutex)
    /\ tagMutex' = [tagMutex EXCEPT !.readers = @ + 1]
    /\ tc' = [tc EXCEPT ![c].st = "rcheck"]
    /\ UNCHANGED <<tagCache, remoteTags, nextTagId, tagHist>>

\* the first look at the cache, then RUnlock()
TagRCheck(c) ==
    /\ TagOnly /\ tc[c].st = "rcheck"
    /\ tagMutex' = [tagMutex EXCEPT !.readers = @ - 1]
    /\ tc' = [tc EXCEPT ![c] =
                 IF cacheHit(tagCache, @.name)
                 THEN Returned(@, tagCache[@.name], FALSE)
                 ELSE [@ EXCEPT !.st = "lock"]]
    /\ UNCHANGED <<tagCache, remoteTags, nextTagId, tagHist>>

\* tagCacheMutex.Lock(); defer Unlock()
TagLock(c) ==
    /\ TagOnly /\ tc[c].st = "lock" /\ CanLock(tagMutex)
    /\ tagMutex' = [tagMutex EXCEPT !.writer = c]
    /\ tc' = [tc EXCEPT ![c].st = "dcheck"]
    /\ UNCHANGED <<tagCache, remoteTags, nextTagId, tagHist>>

\* a return that leaves the exclusive lock held
UnlockForgets(m, c) == m

\* the deferred Unlock() of the caller that returns
Unlock(m, c) == IF m.writer = c THEN [m EXCEPT !.writer = 0] ELSE m

\* the second look at the cache, under the exclusive lock
TagDCheck(c) ==
    /\ TagOnly /\ tc[c].st = "dcheck"
    /\ IF cacheHit(tagCache, tc[c].name)
       THEN /\ tc' = [tc EXCEPT ![c] = Returned(@, tagCache[@.name], FALSE)]
            /\ tagMutex' = Unlock(tagMutex, c)
            /\ tagHist' = [tagHist EXCEPT !.lateHits = @ + 1]
       ELSE /\ tc' = [tc EXCEPT ![c].st = "get"]
            /\ UNCHANGED <<tagMutex, tagHist>>
    /\ UNCHANGED <<tagCache, remoteTags, nextTagId>>

\* the answers the remote system can give; a failure uses up the budget
GetAnswers == {"ok"} \cup (IF tagHist.faults < MaxTagFaults THEN {"err"} ELSE {})
CreateAnswers(exists) ==
    IF exists THEN {"non201"}
    ELSE {"201"} \cup (IF tagHist.faults < MaxTagFaults
                       THEN {"non201", "neterr"} ELSE {})

\* pf.getTagID(tagName) in getOrCreateTagID, and what follows a found tag
TagGet(c) ==
    /\ TagOnly /\ tc[c].st = "get"
    /\ \E a \in GetAnswers :
         LET n == tc[c].name
             id == remoteTags[n]
         IN IF a = "err"
            THEN /\ tc' = [tc EXCEPT ![c] = Returned(@, 0, TRUE)]
                 /\ tagMutex' = Unlock(tagMutex, c)
                 /\ tagHist' = [tagHist EXCEPT !.faults = @ + 1]
                 /\ UNCHANGED tagCache
            ELSE IF id = 0
            THEN /\ tc' = [tc EXCEPT ![c].st = "create"]
                 /\ UNCHANGED <<tagMutex, tagHist, tagCache>>
            ELSE /\ tagCache' = [tagCache EXCEPT ![n] = id]
                 /\ tc' = [tc EXCEPT ![c] = Returned(@, id, FALSE)]
                 /\ tagMutex' = Unlock(tagMutex, c)
                 /\ UNCHANGED tagHist
    /\ UNCHANGED <<remoteTags, nextTagId>>

\* pf.createTag(tagName): the POST and a 201 answer, or what sends it on
TagCreate(c) ==
    /\ TagOnly /\ tc[c].st = "create"
    /\ \E a \in CreateAnswers(remoteTags[tc[c].name] # 0) :
         LET n == tc[c].name
             calls == [tagHist EXCEPT !.createCalls[n] = @ + 1]
         IN CASE a = "201" ->
                 /\ remoteTags' = [remoteTags EXCEPT ![n] = nextTagId]
                 /\ nextTagId' = nextTagId + 1
                 /\ tagCache' = [tagCache EXCEPT ![n] = nextTagId]
                 /\ tc' = [tc EXCEPT ![c] = Returned(@, nextTagId, FALSE)]
                 /\ tagMutex' = Unlock(tagMutex, c)
                 /\ tagHist' = [calls EXCEPT !.created[n] = @ + 1]
              [] a = "neterr" ->
                 /\ tc' = [tc EXCEPT ![c] = Returned(@, 0, TRUE)]
                 /\ tagMutex' = Unlock(tagMutex, c)
                 /\ tagHist' = [calls EXCEPT !.faults = @ + 1]
                 /\ UNCHANGED <<remoteTags, nextTagId, tagCache>>
              [] OTHER ->
                 /\ tc' = [tc EXCEPT ![c].st = "requery"]
                 /\ tagHist' = IF remoteTags[n] # 0 THEN calls
                               ELSE [calls EXCEPT !.faults = @ + 1]
                 /\ UNCHANGED <<remoteTags, nextTagId, tagCache, tagMutex>>

\* a second query that is never taken to have found the tag
RequeryMissesAlways(a, id) == TRUE

\* the second getTagID fails, or finds no tag (err != nil, or id == 0)
RequeryMisses(a, id) == a = "err" \/ id = 0

\* createTag after a non-201 answer: getTagID once more
TagRequery(c) ==
    /\ TagOnly /\ tc[c].st = "requery"
    /\ \E a \in GetAnswers :
         LET n == tc[c].name
             id == remoteTags[n]
         IN IF RequeryMisses(a, id)
            THEN /\ tc' = [tc EXCEPT ![c] = Returned(@, 0, TRUE)]
                 /\ tagHist' = IF a = "err"
                               THEN [tagHist EXCEPT !.faults = @ + 1] ELSE tagHist
                 /\ UNCHANGED tagCache
            ELSE /\ tagCache' = [tagCache EXCEPT ![n] = id]
                 /\ tc' = [tc EXCEPT ![c] = Returned(@, id, FALSE)]
                 /\ UNCHANGED tagHist
    /\ tagMutex' = Unlock(tagMutex, c)
    /\ UNCHANGED <<remoteTags, nextTagId>>

TagNext ==
    \E c \in TagCallers :
        \/ TagRLock(c) \/ TagRCheck(c) \/ TagLock(c) \/ TagDCheck(c)
        \/ TagGet(c) \/ TagCreate(c) \/ TagRequery(c)

\* ---- processTags of package paperless: GetTagID and CreateTag called for
\* each tag of the file, with neither the cache nor its lock
\* id, err := GetTagID(tagName): the request leaves
ProcessTagsCall(c) ==
    /\ TagOnly /\ tc[c].st = "start"
    /\ tc' = [tc EXCEPT ![c].st = "pget"]
    /\ UNCHANGED <<tagCache, tagMutex, remoteTags, nextTagId, tagHist>>

\* GetTagID returns: an error, no tag (CreateTag is called), or the tag's id
ProcessTagsGet(c) ==
    /\ TagOnly /\ tc[c].st = "pget"
    /\ \E a \in GetAnswers :
         LET id == remoteTags[tc[c].name]
         IN IF a = "err"
            THEN /\ tc' = [tc EXCEPT ![c] = Returned(@, 0, TRUE)]
                 /\ tagHist' = [tagHist EXCEPT !.faults = @ + 1]
            ELSE /\ tc' = [tc EXCEPT ![c] =
                         IF id = 0 THEN [@ EXCEPT !.st = "pcreate"]
                         ELSE Returned(@, id, FALSE)]
                 /\ UNCHANGED tagHist
    /\ UNCHANGED <<tagCache, tagMutex, remoteTags, nextTagId>>

\* CreateTag: the POST is answered
ProcessTagsCreate(c) ==
    /\ TagOnly /\ tc[c].st = "pcreate"
    /\ \E a \in CreateAnswers(remoteTags[tc[c].name] # 0) :
         LET n == tc[c].name
             calls == [tagHist EXCEPT !.createCalls[n] = @ + 1]
         IN CASE a = "201" ->
                 /\ remoteTags' = [remoteTags EXCEPT ![n] = nextTagId]
                 /\ nextTagId' = nextTagId + 1
                 /\ tc' = [tc EXCEPT ![c] = Returned(@, nextTagId, FALSE)]
                 /\ tagHist' = [calls EXCEPT !.created[n] = @ + 1]
              [] a = "neterr" ->
                 /\ tc' = [tc EXCEPT ![c] = Returned(@, 0, TRUE)]
                 /\ tagHist' = [calls EXCEPT !.faults = @ + 1]
                 /\ UNCHANGED <<remoteTags, nextTagId>>
              [] OTHER ->
                 /\ tc' = [tc EXCEPT ![c].st = "prequery"]
                 /\ tagHist' = IF remoteTags[n] # 0 THEN calls
                               ELSE [calls EXCEPT !.faults = @ + 1]
                 /\ UNCHANGED <<remoteTags, nextTagId>>
    /\ UNCHANGED <<tagCache, tagMutex>>

\* CreateTag after a non-201 answer: GetTagID once more
ProcessTagsRequery(c) ==
    /\ TagOnly /\ tc[c].st = "prequery"
    /\ \E a \in GetAnswers :
         LET id == remoteTags[tc[c].name]
         IN IF RequeryMisses(a, id)
            THEN /\ tc' = [tc EXCEPT ![c] = Returned(@, 0, TRUE)]
                 /\ tagHist' = IF a = "err"
                               THEN [tagHist EXCEPT !.faults = @ + 1] ELSE tagHist
            ELSE /\ tc' = [tc EXCEPT ![c] = Returned(@, id, FALSE)]
                 /\ UNCHANGED tagHist
    /\ UNCHANGED <<tagCache, tagMutex, remoteTags, nextTagId>>

ProcessTagsNext ==
    \E c \in TagCallers :
        \/ ProcessTagsCall(c) \/ ProcessTagsGet(c)
        \/ ProcessTagsCreate(c) \/ ProcessTagsRequery(c)

\* another client of the remote system creates the tag
TagElsewhere ==
    /\ TagOnly
    /\ \E n \in TagNames :
         /\ remoteTags[n] = 0
         /\ remoteTags' = [remoteTags EXCEPT ![n] = nextTagId]
    /\ nextTagId' = nextTagId + 1
    /\ UNCHANGED <<tagCache, tagMutex, tc, tagHist>>

RemoteNext == TagNext \/ TagElsewhere

\* the callers of getOrCreateTagID for a name
CallersOf(n) == {c \in TagCallers : tc[c].name = n}
AllReturned == \A c \in TagCallers : tc[c].st = "done"

\* C1: for a name that is in neither the cache nor the remote system when the
\* callers start, the remote system creates the tag at most once and no two
\* callers return different ids; and when every caller has returned and no
\* remote call failed, the creation call was issued exactly once and every
\* caller of the name returned the id it made, without error.
C1_CreateOnce ==
    \A n \in TagNames :
        tagHist.remote0[n] = 0 =>
            /\ tagHist.created[n] <= 1
            /\ \A a, b \in CallersOf(n) :
                  (tc[a].st = "done" /\ ~tc[a].err /\ tc[b].st = "done" /\ ~tc[b].err)
                      => tc[a].id = tc[b].id
            /\ (AllReturned /\ tagHist.faults = 0 /\ CallersOf(n) # {}) =>
                  /\ tagHist.createCalls[n] = 1
                  /\ \A c \in CallersOf(n) :
                        ~tc[c].err /\ tc[c].id = remoteTags[n] /\ tc[c].id # 0

\* two or more callers of an unknown name have all returned, and at least one
\* of them found the tag only at its second look, under the exclusive lock
C1_Witness ==
    \E n \in TagNames :
        /\ tagHist.remote0[n] = 0 /\ Cardinality(CallersOf(n)) >= 2
        /\ AllReturned /\ tagHist.faults = 0
        /\ tagHist.createCalls[n] = 1 /\ tagHist.lateHits >= 1

\* C26: an entry of the tag cache, once set, keeps its value for good; while
\* the entry is there no caller is at a remote call for that name (getTagID,
\* createTag or the query after a refused creation); and every caller that
\* returns while the entry is there returns its value and no error.
C26_CacheEntryIsFinal ==
    /\ [][\A n \in TagNames :
            tagCache[n] # NoEntry => tagCache'[n] = tagCache[n]]_vars
    /\ [](\A c \in TagCallers :
            tc[c].st \in {"get", "create", "requery"}
                => tagCache[tc[c].name] = NoEntry)
    /\ [][\A c \in TagCallers :
            (tagCache[tc[c].name] # NoEntry /\ tc[c].st # "done"
             /\ tc'[c].st = "done")
                => ~tc'[c].err /\ tc'[c].id = tagCache[tc[c].name]]_vars

\* two or more callers of a name have returned its cached id, and none of them
\* found it at the second look: all but the one that filled the cache found
\* it at the first look, under the read lock
C26_Witness ==
    \E n \in TagNames :
        /\ Cardinality(CallersOf(n)) >= 2 /\ tagCache[n] # NoEntry
        /\ \A c \in CallersOf(n) :
              tc[c].st = "done" /\ ~tc[c].err /\ tc[c].id = tagCache[n]
        /\ tagHist.lateHits = 0 /\ tagHist.faults = 0

\* C30: a caller whose creation request was answered with a status other
\* than 201 makes one more query by name and then returns: when the query
\* succeeds and finds the tag, it returns the tag's id without error and the
\* id is in the cache; when the query fails or finds nothing, it returns an
\* error and the cache is left as it was.
C30_RefusedCreationAsksAgain ==
    [][\A c \in TagCallers :
         (tc[c].st = "requery" /\ tc'[c] # tc[c]) =>
            LET n == tc[c].name
            IN /\ tc'[c].st = "done"
               /\ IF remoteTags[n] # 0 /\ tagHist'.faults = tagHist.faults
                  THEN /\ ~tc'[c].err /\ tc'[c].id = remoteTags[n]
                       /\ tagCache'[n] = remoteTags[n]
                  ELSE /\ tc'[c].err /\ tc'[c].id = 0
                       /\ tagCache'[n] = tagCache[n]]_vars

\* the only caller of a name issued one creation request, the remote system
\* made no tag for it, and the caller returned without error the id of the tag
\* another client made in between, which is now cached
C30_Witness ==
    \E n \in TagNames :
        /\ Cardinality(CallersOf(n)) = 1
        /\ tagHist.remote0[n] = 0 /\ tagHist.createCalls[n] = 1
        /\ tagHist.created[n] = 0
        /\ \A c \in CallersOf(n) :
              tc[c].st = "done" /\ ~tc[c].err /\ tc[c].id = remoteTags[n]
        /\ remoteTags[n] # 0 /\ tagCache[n] = remoteTags[n]

\* the callers in a remote call of getOrCreateTagID
Resolving == {"get", "create", "requery"}

\* C39: when the lookup or the creation fails in a first-time resolution, the
\* call returns identifier 0 with an error, the cache is what it was and has
\* no entry for the name, and the exclusive lock is free again; the cache
\* never holds identifier 0; and a caller that finds no entry under the
\* exclusive lock goes to the remote system, so the next resolution of the
\* name asks it again.
C39_FailureLeavesNoEntry ==
    /\ [][\A c \in TagCallers :
            (tc[c].st \in Resolving /\ tc'[c].st = "done" /\ tc'[c].err)
                => /\ tc'[c].id = 0
                   /\ tagCache' = tagCache
                   /\ tagCache[tc[c].name] = NoEntry
                   /\ tagMutex.writer = c /\ tagMutex'.writer = 0]_vars
    /\ [][\A c \in TagCallers :
            (tc[c].st = "dcheck" /\ tc'[c] # tc[c] /\ tagCache[tc[c].name] = NoEntry)
                => tc'[c].st = "get" /\ tagMutex'.writer = c]_vars
    /\ [](\A n \in TagNames : tagCache[n] # 0)
    /\ [](\A c \in TagCallers : (tc[c].st = "done" /\ tc[c].err) => tc[c].id = 0)

\* one caller has returned an error for a name, the cache has no entry for it,
\* and a later caller of the same name is in the remote lookup
C39_Witness ==
    \E c1, c2 \in TagCallers :
        /\ c1 # c2 /\ tc[c1].name = tc[c2].name
        /\ tc[c1].st = "done" /\ tc[c1].err
        /\ tagCache[tc[c1].name] = NoEntry
        /\ tc[c2].st = "get" /\ tagMutex.writer = c2

\* the callers with a request to the remote tag store under way
InFlight ==
    {c \in TagCallers :
        tc[c].st \in {"get", "create", "requery", "pget", "pcreate", "prequery"}}

\* C31: at most one caller has a remote tag call under way, whatever the
\* names; the caller that has one holds the exclusive lock of the cache; and a
\* caller that looks at the cache does so while no other caller holds that
\* lock.
C31_OneRemoteCallAtATime ==
    /\ Cardinality(InFlight) <= 1
    /\ \A c \in InFlight : tagMutex.writer = c
    /\ \A c \in TagCallers :
          tc[c].st \in {"rcheck", "dcheck"} => tagMutex.writer \in {0, c}

\* ------------------------------------------------------------- unzipFile
\* a path is the sequence of its components below the root directory
DestDir == <<"tmp", "extract">>
\* the bytes of an entry: its own, so that a mix-up of entries shows
Bytes(name) == <<Len(name), Len(name[Len(name)])>>
Entry(name, isDir) ==
    [Name |-> name, IsDir |-> isDir, Data |-> IF isDir THEN <<>> ELSE Bytes(name)]
\* the zipFileName argument
ZipFileName == <<"z", ".zip">>
EntryPool ==
    { Entry(<<"a.pdf">>, FALSE),
      Entry(<<"sub">>, TRUE),
      Entry(<<"sub", "b.png">>, FALSE),
      Entry(<<"sub", "..", "c.txt">>, FALSE),
      Entry(<<"..", "evil.txt">>, FALSE),
      Entry(<<"..", "..", "etc", "cron">>, FALSE),
      Entry(<<".DS_Store">>, FALSE),
      Entry(<<"__MACOSX", "._a.pdf">>, FALSE) }

\* strings.Contains(strings.ToLower(name), systemFile) for one of the five
\* patterns, on the components used here (no pattern holds a separator)
SystemComponents == {".DS_Store", "__MACOSX", "._a.pdf", "Thumbs.db", "desktop.ini"}
isSystemFile(name) == \E i \in 1..Len(name) : name[i] \in SystemComponents

\* filepath.Clean of a rooted path: ".." removes the component before it, and
\* is dropped at the root
RECURSIVE CleanFrom(_, _)
CleanFrom(done, rest) ==
    IF rest = <<>> THEN done
    ELSE IF Head(rest) = ".."
         THEN CleanFrom(IF done = <<>> THEN <<>> ELSE SubSeq(done, 1, Len(done) - 1),
                        Tail(rest))
         ELSE CleanFrom(Append(done, Head(rest)), Tail(rest))
Clean(path) == CleanFrom(<<>>, path)

\* filepath.Join(destDir, file.Name)
Join(dir, name) == Clean(dir \o name)

\* filepath.Ext of the last component
Ext(name) ==
    LET last == name[Len(name)]
    IN CASE last \in {"a.pdf", "._a.pdf"} -> ".pdf"
         [] last = "b.png" -> ".png"
         [] last \in {"c.txt", "evil.txt"} -> ".txt"
         [] OTHER -> ""

Parent(path) == SubSeq(path, 1, Len(path) - 1)
Prefixes(path) == {SubSeq(path, 1, k) : k \in 0..Len(path)}

\* path lies in the tree rooted at dir
Inside(dir, path) ==
    Len(path) >= Len(dir) /\ SubSeq(path, 1, Len(dir)) = dir

\* fault: the environment made a call fail (not program state)
\* temp, j, filesToCleanup, uploads, ret: processZipFile's extractDir ==
\* os.TempDir(), its loop position, its clean-up list, its e.Uploads.Add(1)
\* calls and its return value; lost: the entries whose save or upload failed
NoFiles == [st |-> "off", i |-> 0, extractedFiles |-> <<>>, err |-> FALSE,
            fault |-> FALSE, temp |-> FALSE, j |-> 0, filesToCleanup |-> <<>>,
            uploads |-> 0, lost |-> {}, ret |-> ""]

ZipIdle ==
    /\ zipFile = <<>>
    /\ uz = NoFiles
    /\ fs = [kind |-> "mem", files |-> {}, dirs |-> {<<>>}]

ZipInit ==
    /\ zipFile \in UNION {[1..n -> EntryPool] : n \in 0..MaxEntries}
    /\ uz = [NoFiles EXCEPT !.st = "reader"]
    /\ fs \in [kind : {"os", "mem"}, files : {{}},
               dirs : {{<<>>, <<"tmp">>, <<"etc">>}}]

ZipOnly == UNCHANGED <<pipeVars, tagVars, saveVars, typeVars>>

\* return nil/extractedFiles, fmt.Errorf(...)
Failed(u, files) == [u EXCEPT !.st = "done", !.extractedFiles = files, !.err = TRUE]

\* zip.NewReader(bytes.NewReader(data), int64(len(data)))
ZipNewReader ==
    /\ ZipOnly /\ uz.st = "reader"
    /\ \E ok \in BOOLEAN :
         uz' = IF ok THEN [uz EXCEPT !.st = "mkdir"]
               ELSE [Failed(uz, <<>>) EXCEPT !.fault = TRUE]
    /\ UNCHANGED <<zipFile, fs>>

\* fs.MkdirAll(destDir, 0755)
ZipMkdirAll ==
    /\ ZipOnly /\ uz.st = "mkdir"
    /\ \E ok \in BOOLEAN :
         IF ok
         THEN /\ fs' = [fs EXCEPT !.dirs = @ \cup Prefixes(DestDir)]
              /\ uz' = [uz EXCEPT !.st = "loop", !.i = 1]
         ELSE /\ uz' = [Failed(uz, <<>>) EXCEPT !.fault = TRUE]
              /\ UNCHANGED fs
    /\ UNCHANGED zipFile

\* fs.Create(filePath) succeeds: the operating system's file system needs the
\* parent directory, the in-memory one makes it
CanCreate(f, path) ==
    /\ path \notin f.dirs
    /\ f.kind = "os" => Parent(path) \in f.dirs

Created(f, path) ==
    [f EXCEPT !.files = @ \cup {path},
              !.dirs = IF f.kind = "mem" THEN @ \cup Prefixes(Parent(path)) ELSE @]

\* the entry is skipped: a directory or a system file
Skipped(file) == file.IsDir \/ isSystemFile(file.Name)

\* one pass of the loop over zipReader.File
ZipEntry ==
    /\ ZipOnly /\ uz.st = "loop" /\ uz.i <= Len(zipFile)
    /\ LET file == zipFile[uz.i]
           filePath == Join(DestDir, file.Name)
       IN IF Skipped(file)
          THEN /\ uz' = [uz EXCEPT !.i = @ + 1]
               /\ UNCHANGED fs
          ELSE \E answer \in {"ok", "openErr", "readErr", "createErr", "writeErr"} :
                 IF answer \in {"openErr", "readErr", "createErr"}
                    \/ ~CanCreate(fs, filePath)
                 THEN   /\ uz' = [Failed(uz, uz.extractedFiles) EXCEPT
                                     !.fault = answer # "ok"]
                        /\ UNCHANGED fs
                 ELSE IF answer = "writeErr"
                 THEN   /\ fs' = Created(fs, filePath)
                        /\ uz' = [Failed(uz, uz.extractedFiles) EXCEPT
                                     !.fault = TRUE]
                 ELSE   /\ fs' = Created(fs, filePath)
                        /\ uz' = [uz EXCEPT
                                    !.i = @ + 1,
                                    !.extractedFiles =
                                        Append(@, [Path |-> filePath,
                                                   Name |-> file.Name,
                                                   Data |-> file.Data,
                                                   MimeType |-> getMimeType(Ext(file.Name)),
                                                   ZipFileName |-> ZipFileName])]
    /\ UNCHANGED zipFile

\* return extractedFiles, nil
ZipReturn ==
    /\ ZipOnly /\ uz.st = "loop" /\ uz.i > Len(zipFile)
    /\ uz' = [uz EXCEPT !.st = "done"]
    /\ UNCHANGED <<zipFile, fs>>

ZipNext == ZipNewReader \/ ZipMkdirAll \/ ZipEntry \/ ZipReturn

\* ---- processZipFile: unzipFile, then the loop over the extracted files
ProcessZipInit ==
    /\ zipFile \in UNION {[1..n -> EntryPool] : n \in 0..MaxEntries}
    /\ uz \in {[NoFiles EXCEPT !.st = "reader", !.temp = t] : t \in BOOLEAN}
    /\ fs \in [kind : {"os", "mem"}, files : {{}},
               dirs : {{<<>>, <<"tmp">>, <<"etc">>}}]

\* the index in the archive of the j-th file unzipFile returned
RECURSIVE KeptIndex(_, _, _)
KeptIndex(files, k, j) ==
    IF ~Skipped(files[k])
    THEN (IF j = 1 THEN k ELSE KeptIndex(files, k + 1, j - 1))
    ELSE KeptIndex(files, k + 1, j)

\* extractedFiles, err := unzipFile(...); if err != nil { return error }
ProcessZipExtracted ==
    /\ ZipOnly /\ uz.st = "done"
    /\ uz' = IF uz.err THEN [uz EXCEPT !.st = "returned", !.ret = "err"]
             ELSE [uz EXCEPT !.st = "files", !.j = 1]
    /\ UNCHANGED <<zipFile, fs>>

\* one pass of the loop over extractedFiles: the type filter, then the save
\* or the upload and e.Uploads.Add(1), then the clean-up list
ProcessZipFileStep ==
    /\ ZipOnly /\ uz.st = "files" /\ uz.j <= Len(uz.extractedFiles)
    /\ LET file == uz.extractedFiles[uz.j]
       IN IF ~zipFileTypeAllowed(FileTypes, file.MimeType)
          THEN uz' = [uz EXCEPT !.j = @ + 1]
          ELSE \E ok \in BOOLEAN :
                 uz' = [uz EXCEPT
                          !.j = @ + 1,
                          !.uploads = IF ok THEN @ + 1 ELSE @,
                          !.lost = IF ok THEN @
                                   ELSE @ \cup {KeptIndex(zipFile, 1, uz.j)},
                          !.filesToCleanup =
                              IF uz.temp THEN Append(@, file.Path) ELSE @]
    /\ UNCHANGED <<zipFile, fs>>

\* e.Fs.Remove of every path of the clean-up list; return nil
ProcessZipCleanup ==
    /\ ZipOnly /\ uz.st = "files" /\ uz.j > Len(uz.extractedFiles)
    /\ fs' = IF uz.temp
             THEN [fs EXCEPT !.files = @ \ Range(uz.filesToCleanup)]
             ELSE fs
    /\ uz' = [uz EXCEPT !.st = "returned", !.ret = "nil"]
    /\ UNCHANGED zipFile

ProcessZipNext ==
    \/ ZipNext \/ ProcessZipExtracted \/ ProcessZipFileStep \/ ProcessZipCleanup

\* C2 as stated: unzipFile rejects an entry whose joined, cleaned path lies
\* outside the destination directory: no file is ever written outside it and
\* no extracted file returned has a path outside it.
C2_NoEscape ==
    /\ \A path \in fs.files : Inside(DestDir, path)
    /\ \A k \in 1..Len(uz.extractedFiles) :
          Inside(DestDir, uz.extractedFiles[k].Path)

\* every entry's joined, cleaned path lies in the destination directory
AllInside == \A k \in 1..Len(zipFile) : Inside(DestDir, Join(DestDir, zipFile[k].Name))

\* the entries that are neither directories nor system files, in archive
\* order, as the ExtractedFile values the claim describes
Ordinary(files) ==
    LET kept == SelectSeq(files, LAMBDA file : ~Skipped(file))
    IN [k \in 1..Len(kept) |->
           [Path |-> Join(DestDir, kept[k].Name),
            Name |-> kept[k].Name,
            Data |-> kept[k].Data,
            MimeType |-> getMimeType(Ext(kept[k].Name)),
            ZipFileName |-> ZipFileName]]

\* C21 as stated: for an archive whose entries all stay inside the destination
\* directory, and with no call failing for a reason of the environment,
\* unzipFile returns without error exactly the entries that are neither
\* directories nor system files: each once, in archive order, with the entry's
\* bytes, the MIME type of its extension and the archive's name.
C21_ReturnsOrdinaryEntries ==
    (uz.st = "done" /\ ~uz.fault /\ AllInside)
        => (~uz.err /\ uz.extractedFiles = Ordinary(zipFile))

\* the entries of the archive that unzipFile keeps and the type filter admits
AdmittedEntries ==
    {k \in 1..Len(zipFile) :
        /\ ~Skipped(zipFile[k])
        /\ zipFileTypeAllowed(FileTypes, getMimeType(Ext(zipFile[k].Name)))}
\* the entries that failed themselves: in the extraction, the save or the upload
FailedEntries == (IF uz.err /\ uz.i >= 1 THEN {uz.i} ELSE {}) \cup uz.lost

\* C33: when processZipFile has returned from an archive that could be opened
\* and whose destination directory could be made, every admitted entry other
\* than those that failed themselves (not read, not written, not saved, not
\* uploaded) was persisted and counted once.
C33_OneEntryFailsAlone ==
    (uz.st = "returned" /\ ~(uz.err /\ uz.i = 0))
        => uz.uploads = Cardinality(AdmittedEntries \ FailedEntries)

\* C40: in upload mode (extraction into the temporary directory), when
\* processZipFile has returned after an extraction without error, no file
\* written by the extraction is left in that directory: not the files the
\* type filter passed over, and not the files whose upload failed.
C40_TempFilesRemoved ==
    (uz.st = "returned" /\ uz.temp /\ ~uz.err)
        => {path \in fs.files : Inside(DestDir, path)} = {}

\* ------------------------------------- saving resources into the output folder
\* A file name is its stem followed by its extension, if it has one.
Exts == {".txt", ".pdf"}
HasExt(name) == Len(name) > 1 /\ name[Len(name)] \in Exts
Stem(name) == IF HasExt(name) THEN SubSeq(name, 1, Len(name) - 1) ELSE name

\* the k-th name tried for a file: name.ext, name-1.ext, name-2.ext, ...
Candidate(name, k) ==
    IF k = 0 THEN name
    ELSE Stem(name) \o <<"-", k>> \o (IF HasExt(name) THEN <<name[Len(name)]>> ELSE <<>>)

SaveNames == { <<"test", ".txt">>, <<"README">>, Candidate(<<"test", ".txt">>, 1) }

\* a target that is the file's own name whatever the folder holds
FirstFreeFromNone(files, name, k) == name

\* SaveResourceToDisk: the first name of the sequence that no file has
RECURSIVE FirstFreeFrom(_, _, _)
FirstFreeFrom(files, name, k) ==
    IF Candidate(name, k) \notin DOMAIN files THEN Candidate(name, k)
    ELSE FirstFreeFrom(files, name, k + 1)

\* the folder before the run: files left by an earlier run hold the bytes 0
Existing(names) == [n \in names |-> 0]
InitialDisks ==
    { Existing({}),
      Existing({<<"test", ".txt">>}),
      Existing({<<"test", ".txt">>, Candidate(<<"test", ".txt">>, 1)}),
      Existing({<<"README">>}) }

Savers == 1..MaxSavers
NoSave == [st |-> "idle", name |-> <<>>, data |-> 0, target |-> <<>>, sawFree |-> FALSE]

SaveIdle ==
    /\ saveCfg = [suffixing |-> FALSE, workers |-> 1, initial |-> Existing({})]
    /\ disk = Existing({})
    /\ sv = [s \in Savers |-> NoSave]
    /\ nextSave = 1
    /\ landed = {}

SaveInit ==
    /\ saveCfg \in [suffixing : BOOLEAN, workers : Savers, initial : InitialDisks]
    /\ disk = saveCfg.initial
    /\ sv = [s \in Savers |-> NoSave]
    /\ nextSave = 1
    /\ landed = {}

SaveOnly == UNCHANGED <<pipeVars, tagVars, zipVars, typeVars>>

\* afero.WriteFile(fs, fileName, data, 0644)
WriteFile(files, fileName, data) ==
    [n \in DOMAIN files \cup {fileName} |-> IF n = fileName THEN data ELSE files[n]]

\* a worker comes to a resource that is to be written to the output folder
SaveStart(s) ==
    /\ SaveOnly /\ s <= saveCfg.workers /\ sv[s].st = "idle"
    /\ nextSave <= MaxSaves
    /\ \E name \in SaveNames :
          sv' = [sv EXCEPT ![s] = [NoSave EXCEPT !.st = "check", !.name = name,
                                                !.data = nextSave]]
    /\ nextSave' = nextSave + 1
    /\ UNCHANGED <<saveCfg, disk, landed>>

\* the look at the folder: afero.Exists on the file's name and, when the file
\* is there, the overwrite prompt; or the choice of the first free name
SaveCheck(s) ==
    /\ SaveOnly /\ sv[s].st = "check"
    /\ IF saveCfg.suffixing
       THEN sv' = [sv EXCEPT ![s].st = "write", ![s].sawFree = TRUE,
                             ![s].target = FirstFreeFrom(disk, sv[s].name, 0)]
       ELSE \E existsErr \in BOOLEAN, answer \in {"y", "n"} :
               sv' = [sv EXCEPT ![s] =
                        IF existsErr \/ (sv[s].name \in DOMAIN disk /\ answer # "y")
                        THEN NoSave
                        ELSE [@ EXCEPT !.st = "write", !.target = sv[s].name,
                                       !.sawFree = sv[s].name \notin DOMAIN disk]]
    /\ UNCHANGED <<saveCfg, disk, nextSave, landed>>

\* afero.WriteFile on the chosen name, with or without success
SaveWrite(s) ==
    /\ SaveOnly /\ sv[s].st = "write"
    /\ \E ok \in BOOLEAN :
          IF ok
          THEN /\ disk' = WriteFile(disk, sv[s].target, sv[s].data)
               /\ landed' = landed \cup {sv[s].data}
          ELSE UNCHANGED <<disk, landed>>
    /\ sv' = [sv EXCEPT ![s] = NoSave]
    /\ UNCHANGED <<saveCfg, nextSave>>

SaveNext == \E s \in Savers : SaveStart(s) \/ SaveCheck(s) \/ SaveWrite(s)

\* a step in which saver s writes a file
Writes(s) == sv[s].st = "write" /\ disk' # disk

C13_NoSaveOverwritesAnother ==
    [][\A s \in Savers :
          (Writes(s) /\ sv[s].sawFree) => sv[s].target \notin DOMAIN disk]_vars

\* ------------------------------------------------- one call of checkFileType
Tokens == {"any", "ANY", "pdf", "PDF", "Pdf", "txt", "TXT", "plain", "jpeg"}
TypeLists == UNION {[1..n -> {Str(t) : t \in Tokens}] : n \in 0..MaxTokens}
MimePool ==
    { <<"application", "/", "pdf">>, <<"application", "/", "PDF">>,
      <<"text", "/", "plain">>, <<"text", "/", "txt">>,
      <<"image", "/", "jpeg">>, <<"application", "/", "unknown">>,
      <<"invalid">>, <<>>, <<"a", "/", "b", "/", "c">> }

NoVerdict == [done |-> FALSE, ok |-> FALSE, err |-> FALSE]

TypeIdle ==
    /\ fileTypes = FileTypes
    /\ mimeType = <<>>
    /\ verdict = NoVerdict

TypeInit ==
    /\ fileTypes \in TypeLists
    /\ mimeType \in MimePool
    /\ verdict = NoVerdict

\* ok, err := e.checkFileType(mimeType)
TypeCheck ==
    /\ UNCHANGED <<pipeVars, tagVars, zipVars, saveVars>>
    /\ ~verdict.done
    /\ LET res == checkFileTypeFor(fileTypes, mimeType)
       IN verdict' = [done |-> TRUE, ok |-> res.ok, err |-> res.err]
    /\ UNCHANGED <<fileTypes, mimeType>>

TypeNext == TypeCheck

\* the MIME string has the form type/subtype
WellFormed(mime) == Len(mime) = 3 /\ mime[2] = "/" /\ mime[1] # "/" /\ mime[3] # "/"

\* C19: when the admission list contains "any", checkFileType admits every
\* MIME string, without error: also one with a subtype it does not know and
\* one that is not of the form type/subtype.
C19_AnyAdmitsEverything ==
    (verdict.done /\ \E i \in 1..Len(fileTypes) : fileTypes[i] = Str("any"))
        => (verdict.ok /\ ~verdict.err)

\* the list <<"pdf", "any">> and the string "invalid"
C19_Witness ==
    /\ verdict.done /\ verdict.ok /\ ~verdict.err
    /\ fileTypes = <<Str("pdf"), Str("any")>> /\ mimeType = <<"invalid">>

\* a token as the claim reads it: letter case does not count, and "txt" in
\* any letter case stands for "plain"
Folded(token) == IF ToLower(token) = Str("txt") THEN Str("plain") ELSE ToLower(token)

\* C20 as stated: for an admission list without the wildcard and a MIME string
\* type/subtype, checkFileType admits exactly when some token of the list,
\* with "txt" in any letter case read as "plain", equals the subtype up to
\* letter case.
C20_AdmitsIffTokenMatches ==
    (/\ verdict.done
     /\ \A i \in 1..Len(fileTypes) : ToLower(fileTypes[i]) # Str("any")
     /\ WellFormed(mimeType))
        => /\ ~verdict.err
           /\ verdict.ok <=>
                 \E i \in 1..Len(fileTypes) :
                     Folded(fileTypes[i]) = ToLower(<<mimeType[3]>>)

\* the MIME types getMimeType gives to extracted entries
InferredMimes ==
    {getMimeType(ext) : ext \in {".pdf", ".PDF", ".txt", ".jpg", ".png", ".bin"}}

\* C32: on every admission list and every MIME type inferred for an extracted
\* entry, the filter of processZipFile admits exactly when checkFileType
\* does: with the wildcard, in any letter case, and with "txt" in the list
\* for an entry of type text/plain.
C32_ZipFilterAgreesWithCheckFileType ==
    (verdict.done /\ mimeType \in InferredMimes)
        => (zipFileTypeAllowed(fileTypes, mimeType) <=> verdict.ok)

\* --------------------------------------------------------- specifications
Init == PipeInit /\ TagIdle /\ ZipIdle /\ SaveIdle /\ TypeIdle
Next == PipeNext
Spec == Init /\ [][Next]_vars

\* the goroutine that called Process; the scheduler runs it whenever it can
\* take a step
Coordinator ==
    \/ Validate \/ SpawnFirst \/ WaitWorkers \/ CloseFailed \/ RecvSignal
    \/ Tally \/ DecideDone \/ DecideRetry \/ Return
FairSpec == Spec /\ WF_vars(Coordinator)

\* Process called with concurrency level zero
ZeroInit == Init /\ opts.ConcurrentWorkers = 0
ZeroSpec == ZeroInit /\ [][Next]_vars

\* Process called on a file whose token stream ends in an error
FaultInit ==
    /\ opts \in OptionSet /\ PipeStart
    /\ opts.Malformed /\ opts.PathOK
    /\ TagIdle /\ ZipIdle /\ SaveIdle /\ TypeIdle
FaultSpec == FaultInit /\ [][Next]_vars

\* Process called with one or more workers and a retry callback on an
\* accessible file, well-formed or not; the scheduler lets no runnable
\* goroutine wait forever
LiveInit ==
    /\ opts \in OptionSet /\ PipeStart
    /\ opts.PathOK /\ opts.ConcurrentWorkers >= 1 /\ ~opts.PromptNil
    /\ TagIdle /\ ZipIdle /\ SaveIdle /\ TypeIdle
LiveSpec == LiveInit /\ [][Next]_vars /\ WF_vars(Next)

\* Process in upload mode on an export of notes with one admitted, decodable
\* resource each, against a remote system that answers every call with success
GoodInit == Init /\ opts.PathOK /\ ~opts.OutputFolder
GoodRead == ProducerReadFrom(GoodPool)
GoodResource(w) == WorkerResourceGiven(w, {"ok"}, {"200"})
GoodNext ==
    \/ Validate \/ SpawnFirst \/ ProducerOpen \/ GoodRead \/ ProducerClose
    \/ \E w \in Workers :
          \/ Handoff(w) \/ WorkerReturn(w) \/ WorkerCount(w)
          \/ GoodResource(w) \/ WorkerInc(w)
    \/ CatcherExit \/ WaitWorkers \/ CloseFailed \/ RecvSignal
    \/ Tally \/ DecideDone \/ Return
GoodSpec == GoodInit /\ [][GoodNext]_vars

\* Process with a retry callback on an accessible export whose notes have
\* resources of each kind; the file system does what it is asked, the remote
\* system answers an upload with some status; no retry cycle is looked at
WorkerInit == Init /\ opts.PathOK /\ ~opts.PromptNil
WorkerRead == ProducerReadFrom(WorkerPool)
StatusPool == {"200", "201", "204", "500"}
WorkerResourceOf(w) == WorkerResourceGiven(w, {"ok"}, StatusPool)
WorkerNext ==
    \/ Validate \/ SpawnFirst \/ ProducerOpen \/ WorkerRead \/ ProducerClose
    \/ \E w \in Workers :
          \/ Handoff(w) \/ WorkerReturn(w) \/ WorkerCount(w)
          \/ WorkerResourceOf(w) \/ WorkerInc(w) \/ WorkerSendFail(w)
    \/ CatcherExit \/ WaitWorkers \/ CloseFailed \/ RecvSignal
    \/ Tally \/ DecideDone \/ Return
WorkerSpec == WorkerInit /\ [][WorkerNext]_vars

PipeIdle ==
    /\ PipeStart
    /\ opts = [ConcurrentWorkers |-> 1, OutputFolder |-> FALSE,
               PromptNil |-> TRUE, PathOK |-> TRUE, Malformed |-> FALSE]

TagSpecInit == PipeIdle /\ TagInit /\ ZipIdle /\ SaveIdle /\ TypeIdle
TagSpec == TagSpecInit /\ [][TagNext]_vars
\* the same callers, resolving their tags as Upload does, through processTags
ProcessTagsSpec == TagSpecInit /\ [][ProcessTagsNext]_vars
\* the same callers, with other clients of the remote system at work
RemoteSpec == TagSpecInit /\ [][RemoteNext]_vars

ZipSpecInit == PipeIdle /\ TagIdle /\ ZipInit /\ SaveIdle /\ TypeIdle
ZipSpec == ZipSpecInit /\ [][ZipNext]_vars
ProcessZipSpecInit == PipeIdle /\ TagIdle /\ ProcessZipInit /\ SaveIdle /\ TypeIdle
ProcessZipSpec == ProcessZipSpecInit /\ [][ProcessZipNext]_vars

SaveSpecInit == PipeIdle /\ TagIdle /\ ZipIdle /\ SaveInit /\ TypeIdle
SaveSpec == SaveSpecInit /\ [][SaveNext]_vars

TypeSpecInit == PipeIdle /\ TagIdle /\ ZipIdle /\ SaveIdle /\ TypeInit
TypeSpec == TypeSpecInit /\ [][TypeNext]_vars

====
